---- MODULE Spec2Model ----
(***************************************************************************)
(* Verification model of the UniversalValidator rule pipeline:             *)
(*   - ValidationEngine  (src/modules/validation_engine copy.py)           *)
(*   - ResponseBuilder   (src/modules/response_builder.py)                 *)
(*   - OrderFilter       (src/modules/order_filter.py)                     *)
(*   - OrderFetcher      (src/modules/order_fetcher.py)                    *)
(*   - BulkValidator     (src/modules/bulk_validator.py)                   *)
(*   - AssetFetcher      (src/modules/asset_fetcher.py)                    *)
(*                                                                         *)
(* Python values are encoded as follows.                                   *)
(*   Optional value   : a set with at most one element; {} is None.        *)
(*   dict (asset)     : a record; absent keys read as None through .get(). *)
(*   ordered dict     : a sequence of [key, data] records in insertion     *)
(*                      order (Python dicts iterate in insertion order).   *)
(*   exception        : an outcome record with raised = TRUE.              *)
(***************************************************************************)
EXTENDS Integers, Sequences, FiniteSets, TLC

VARIABLES
    assets,          \* Asset Bundle handed to the engine
    check,           \* SpecCharges: the charge Check Descriptor under evaluation
    result,          \* SpecCharges: outcome of _check_charges (None before the call)
    config,          \* ValidationEngine.validations_config
    order_reasons,   \* validate_for_msisdn argument
    pc,              \* position of the running call
    ri,              \* validate_for_msisdn: index of the next reason of the loop
    basic_results,   \* validate_for_msisdn: local basic_results (None before step 1)
    reason_results,  \* validate_for_msisdn: local reason_results (ordered dict)
    log,             \* logger.debug lines "[BASIC] id: result" / "[REASON] id: result"
    final_result,    \* validate_for_msisdn: the returned dict (None before the return)
    validation_data, \* ResponseBuilder: validation_data argument
    response,        \* ResponseBuilder: the per-identifier response (None before the call)
    orders,          \* OrderFilter.filter_and_group: the orders argument
    filter_config,   \* OrderFilter.filter_and_group: config["order_filter"]
    after_reasons,   \* filter_and_group: local 'filtered' after step 1
    after_types,     \* filter_and_group: local 'filtered' after step 2
    filtered,        \* filter_and_group: local 'filtered' after step 3 (its dicts are flagged in step 5)
    grouped,         \* filter_and_group: local 'grouped', msisdn -> reference into 'filtered'
    fpc,             \* OrderFilter: position of the running call
    fetch_config,    \* config["order_fetcher"] of the yesterday batch
    source,          \* the record source: the OrderItem rows it holds, or None when it is down
    queries,         \* queries sent to the record source so far
    fetch_error,     \* the exception validate_yesterday_orders ended with (None: none)
    fetched,         \* validate_yesterday_orders: local 'orders' (msisdn -> order)
    batch_msisdns,   \* validate_yesterday_orders: list(grouped_orders.keys())
    batch_requests,  \* identifiers a per-identifier validation request was issued for
    batch_filter,    \* config["order_filter"] of the yesterday batch
    batch_grouped,   \* grouped_orders of the yesterday batch: identifier -> order record
    bpc,             \* validate_yesterday_orders: position of the run
    asset_source,    \* AssetFetcher: what the record source answers for the identifier
    lookups,         \* AssetFetcher: the lookups sent to the record source, in order
    latest_line,     \* get_assets_for_msisdn_v2: local latest_line
    found_device,    \* get_assets_for_msisdn_v2: local device
    found_children,  \* get_assets_for_msisdn_v2: local line_children
    found_dchildren, \* get_assets_for_msisdn_v2: local device_children
    bundle,          \* get_assets_for_msisdn_v2: the returned dict (None before the return)
    apc,             \* get_assets_for_msisdn_v2: position of the call
    msisdns,         \* _validate_msisdns_batch: the msisdns argument
    max_workers,     \* bulk_validation.max_concurrent_requests (None: not configured)
    tasks,           \* the submitted validate_single_msisdn calls, in submission order
    batch_results,   \* _validate_msisdns_batch: local 'results' (ordered dict)
    writes,          \* number of assignments results[msisdn] = ..., per submitted call
    kpc,             \* _validate_msisdns_batch: position of the calling thread
    grouped_orders,  \* validate_yesterday_orders: local 'grouped_orders' (msisdn -> order)
    report,          \* validate_yesterday_orders: what _format_results returned (None before)
    engine_cfg,      \* ValidatorService.validation_engine: its validations_config
    accumulator,     \* ValidatorService.validation_engine._warnings
    request,         \* validate_msisdn: what the record source holds for the identifier
    svc_outcome,     \* validate_msisdn: how the call ended and what it did (None before)
    spc,             \* ValidatorService: position of the running call
    requested,       \* validate_bulk_msisdns: the msisdns argument
    list_orders,     \* validate_bulk_msisdns: local 'filtered_orders' (msisdn -> order)
    list_results,    \* validate_bulk_msisdns: local 'results' (ordered dict)
    list_response,   \* validate_bulk_msisdns: the returned dict (None before the return)
    list_config,     \* validate_bulk_msisdns: self.config (output format, order filter)
    lpc              \* validate_bulk_msisdns: position of the call

coreVars == <<assets, check, result, config, order_reasons, pc, ri, basic_results,
              reason_results, log, final_result, validation_data, response>>

filterVars == <<orders, filter_config, after_reasons, after_types, filtered, grouped, fpc>>

fetchVars == <<fetch_config, source, queries, fetch_error, fetched, batch_msisdns,
               batch_requests, batch_filter, batch_grouped, bpc>>

assemblerVars == <<asset_source, lookups, latest_line, found_device, found_children,
                   found_dchildren, bundle, apc>>

bulkVars == <<msisdns, max_workers, tasks, batch_results, writes, kpc, grouped_orders,
              report>>

serviceVars == <<engine_cfg, accumulator, request, svc_outcome, spc>>

listVars == <<requested, list_orders, list_results, list_response, list_config, lpc>>

\* everything outside the engine and the response builder
pipelineVars == <<filterVars, fetchVars, assemblerVars, bulkVars, serviceVars, listVars>>

vars == <<coreVars, pipelineVars>>

-----------------------------------------------------------------------------
(* Bounds of the model *)

MaxChildren == 2
MaxChecks == 2
MaxReasons == 3
MaxReasonSets == 3
MaxSetChecks == 1
MaxOrders == 3
MaxFetchedChildren == 1
MaxMsisdns == 3
MaxHistory == 2
MaxWarnings == 1

-----------------------------------------------------------------------------
(* Python value encodings *)

None == {}
Some(v) == {v}
IsNone(x) == x = {}
Val(x) == CHOOSE v \in x : TRUE

Ret(v) == [raised |-> FALSE, value |-> v]
Raise == [raised |-> TRUE, value |-> FALSE]

SeqsUpTo(S, n) == UNION {[1..k -> S] : k \in 0..n}

\* values of the variables of a component that is not running
FilterIdle ==
    /\ orders = <<>> /\ filter_config = None /\ after_reasons = <<>>
    /\ after_types = <<>> /\ filtered = <<>> /\ grouped = <<>> /\ fpc = "idle"

FetchIdle ==
    /\ fetch_config = None /\ source = None /\ queries = <<>> /\ fetch_error = None
    /\ fetched = <<>> /\ batch_msisdns = <<>> /\ batch_requests = {} /\ bpc = "idle"
    /\ batch_filter = None /\ batch_grouped = <<>>

AssemblerIdle ==
    /\ asset_source = None /\ lookups = <<>> /\ latest_line = None /\ found_device = None
    /\ found_children = <<>> /\ found_dchildren = <<>> /\ bundle = None /\ apc = "idle"

BulkIdle ==
    /\ msisdns = <<>> /\ max_workers = None /\ tasks = <<>> /\ batch_results = <<>>
    /\ writes = <<>> /\ kpc = "idle" /\ grouped_orders = <<>> /\ report = None

ServiceIdle ==
    /\ engine_cfg = None /\ accumulator = <<>> /\ request = None /\ svc_outcome = None
    /\ spc = "idle"

ListIdle ==
    /\ requested = <<>> /\ list_orders = <<>> /\ list_results = <<>>
    /\ list_response = None /\ list_config = None /\ lpc = "idle"

PipelineIdle ==
    FilterIdle /\ FetchIdle /\ AssemblerIdle /\ BulkIdle /\ ServiceIdle /\ ListIdle

-----------------------------------------------------------------------------
(* Asset Bundles *)

SIM_CODE == "PR_B2C_SIM_Card"

\* charge amounts: null, a negative amount, zero, a positive amount
ChargeValues == {None, Some(-1), Some(0), Some(5)}

\* the 'charges' field of an asset: absent/null, a non-mapping value, or a mapping
ChargesFields ==
    {[kind |-> "missing", one_time |-> None, recurring |-> None],
     [kind |-> "scalar", one_time |-> None, recurring |-> None]}
    \cup [kind : {"dict"}, one_time : ChargeValues, recurring : ChargeValues]

Asset(code, status, charges) ==
    [mapping |-> TRUE, id |-> Some("a1"), product_code |-> code,
     status |-> status, charges |-> charges]

\* a list entry that is not a mapping (e.g. null): .get() on it raises
NotAMapping ==
    [mapping |-> FALSE, id |-> None, product_code |-> "", status |-> None,
     charges |-> [kind |-> "missing", one_time |-> None, recurring |-> None]]

GoodCharges == [kind |-> "dict", one_time |-> Some(5), recurring |-> Some(0)]

Bundle(device, line_children, device_children) ==
    [line |-> Some(Asset("ML-UNLIM", Some("Active"), GoodCharges)),
     device |-> device,
     line_children |-> line_children,
     device_children |-> device_children]

-----------------------------------------------------------------------------
(* ValidationEngine: the charge strategies *)

\* Check 4 of every strategy: "no positive charges" when allow_zero is false
NoPositiveCharges(one_time, recurring) ==
    /\ (IsNone(one_time) \/ Val(one_time) = 0)
    /\ (IsNone(recurring) \/ Val(recurring) = 0)

\* (mutant) Check 4 applied whatever allow_zero says
validate_device_charges_strict(a, allow_zero) ==
    LET device == a.device IN
    IF IsNone(device) THEN Ret(FALSE)
    ELSE LET charges == Val(device).charges IN
         IF charges.kind # "dict" THEN Ret(FALSE)
         ELSE IF IsNone(charges.one_time) /\ IsNone(charges.recurring) THEN Ret(FALSE)
         ELSE IF NoPositiveCharges(charges.one_time, charges.recurring) THEN Ret(FALSE)
         ELSE Ret(TRUE)

validate_device_charges(a, allow_zero) ==
    LET device == a.device IN
    IF IsNone(device) THEN Ret(FALSE)
    ELSE LET charges == Val(device).charges IN
         IF charges.kind = "missing" THEN Ret(FALSE)
         ELSE IF charges.kind # "dict" THEN Ret(FALSE)
         ELSE IF IsNone(charges.one_time) /\ IsNone(charges.recurring) THEN Ret(FALSE)
         ELSE IF ~allow_zero /\ NoPositiveCharges(charges.one_time, charges.recurring)
              THEN Ret(FALSE)
         ELSE Ret(TRUE)

RECURSIVE LineChildrenLoop(_, _, _)
LineChildrenLoop(line_children, idx, allow_zero) ==
    IF idx > Len(line_children) THEN Ret(TRUE)
    ELSE LET child == line_children[idx] IN
         IF ~child.mapping THEN Raise
         ELSE LET charges == child.charges IN
              IF charges.kind = "missing" THEN Ret(FALSE)
              ELSE IF charges.kind # "dict" THEN Ret(FALSE)
              ELSE IF IsNone(charges.one_time) /\ IsNone(charges.recurring) THEN Ret(FALSE)
              ELSE IF ~allow_zero /\ NoPositiveCharges(charges.one_time, charges.recurring)
                   THEN Ret(FALSE)
              ELSE LineChildrenLoop(line_children, idx + 1, allow_zero)

validate_line_children_charges(a, allow_zero) ==
    IF a.line_children = <<>> THEN Ret(TRUE)
    ELSE LineChildrenLoop(a.line_children, 1, allow_zero)

RECURSIVE DeviceChildrenLoop(_, _, _)
DeviceChildrenLoop(device_children, idx, allow_zero) ==
    IF idx > Len(device_children) THEN Ret(TRUE)
    ELSE LET child == device_children[idx] IN
         IF ~child.mapping THEN Raise
         ELSE LET charges == child.charges IN
              IF charges.kind = "missing" THEN Ret(FALSE)
              ELSE IF charges.kind # "dict" THEN Ret(FALSE)
              ELSE IF IsNone(charges.one_time) /\ IsNone(charges.recurring) THEN Ret(FALSE)
              ELSE IF ~allow_zero /\ NoPositiveCharges(charges.one_time, charges.recurring)
                   THEN Ret(FALSE)
              ELSE DeviceChildrenLoop(device_children, idx + 1, allow_zero)

validate_device_children_charges(a, allow_zero) ==
    IF a.device_children = <<>> THEN Ret(TRUE)
    ELSE DeviceChildrenLoop(a.device_children, 1, allow_zero)

\* sim_cards = [c for c in line_children if c.get('product_code') == SIM_CODE]:
\* the comprehension visits every entry, so one non-mapping entry raises
RECURSIVE SimCards(_, _)
SimCards(line_children, idx) ==
    IF idx > Len(line_children) THEN <<>>
    ELSE IF line_children[idx].product_code = SIM_CODE
         THEN <<line_children[idx]>> \o SimCards(line_children, idx + 1)
         ELSE SimCards(line_children, idx + 1)

validate_sim_card_charges(a, allow_zero) ==
    IF \E k \in DOMAIN a.line_children : ~a.line_children[k].mapping THEN Raise
    ELSE LET sim_cards == SimCards(a.line_children, 1) IN
         IF sim_cards = <<>> THEN Ret(FALSE)
         ELSE LET charges == sim_cards[1].charges IN
              IF charges.kind = "missing" THEN Ret(FALSE)
              ELSE IF charges.kind # "dict" THEN Ret(FALSE)
              ELSE IF IsNone(charges.one_time) /\ IsNone(charges.recurring) THEN Ret(FALSE)
              ELSE IF ~allow_zero /\ NoPositiveCharges(charges.one_time, charges.recurring)
                   THEN Ret(FALSE)
              ELSE Ret(TRUE)

\* allow_zero = check.get('allow_zero', True); an absent key is None here
AllowZeroOf(chk) == IF IsNone(chk.allow_zero) THEN TRUE ELSE Val(chk.allow_zero)

check_charges(chk, a) ==
    LET logic == chk.logic
        allow_zero == AllowZeroOf(chk) IN
    IF logic = "validate_all_line_children_charges"
        THEN validate_line_children_charges(a, allow_zero)
    ELSE IF logic = "validate_device_charges"
        THEN validate_device_charges(a, allow_zero)
    ELSE IF logic = "validate_all_device_children_charges"
        THEN validate_device_children_charges(a, allow_zero)
    ELSE IF logic = "validate_sim_card_charges"
        THEN validate_sim_card_charges(a, allow_zero)
    ELSE Ret(FALSE)

-----------------------------------------------------------------------------
(* ValidationEngine: presence, status and custom checks *)

\* any(c.get('product_code') == SIM_CODE for c in line_children): any() stops at
\* the first SIM, so a non-mapping entry raises only when it is reached
RECURSIVE AnySimCard(_, _)
AnySimCard(line_children, idx) ==
    IF idx > Len(line_children) THEN Ret(FALSE)
    ELSE IF ~line_children[idx].mapping THEN Raise
    ELSE IF line_children[idx].product_code = SIM_CODE THEN Ret(TRUE)
    ELSE AnySimCard(line_children, idx + 1)

check_presence(chk, a) ==
    IF chk.logic = "search_line_children_for_sim_card"
        THEN AnySimCard(a.line_children, 1)
    ELSE IF chk.logic = "validate_device_exists"
        THEN Ret(~IsNone(a.device) /\ ~IsNone(Val(a.device).id) /\ Val(Val(a.device).id) # "")
    ELSE Ret(FALSE)

\* Values met while walking a bundle by a dot path.  A leaf is none, a string or
\* a number; "obj" stands for a dict or list (never equal to a configured scalar).
VNone == [t |-> "none", s |-> "", n |-> 0]
VStr(x) == [t |-> "str", s |-> x, n |-> 0]
VNum(x) == [t |-> "num", s |-> "", n |-> x]
VObj(x) == [t |-> "obj", s |-> x, n |-> 0]
OptStr(o) == IF IsNone(o) THEN VNone ELSE VStr(Val(o))
OptNum(o) == IF IsNone(o) THEN VNone ELSE VNum(Val(o))

\* value.get(key) for the dict the walk stands on; node names the dict
DictGet(a, node, key) ==
    IF node = "assets" THEN
        IF key \in {"line", "device"}
            THEN IF IsNone(a[key]) THEN VNone ELSE VObj(key)
        ELSE IF key \in {"line_children", "device_children"} THEN VObj("list")
        ELSE VNone
    ELSE IF node \in {"line", "device"} THEN
        LET asset == Val(a[node]) IN
        IF key = "id" THEN OptStr(asset.id)
        ELSE IF key = "product_code" THEN VStr(asset.product_code)
        ELSE IF key = "status" THEN OptStr(asset.status)
        ELSE IF key = "charges" THEN
            IF asset.charges.kind = "missing" THEN VNone
            ELSE IF asset.charges.kind = "dict" THEN VObj(node \o ".charges")
            ELSE VStr("scalar")
        ELSE VNone
    ELSE IF node \in {"line.charges", "device.charges"} THEN
        LET asset == Val(a[IF node = "line.charges" THEN "line" ELSE "device"]) IN
        IF key = "one_time" THEN OptNum(asset.charges.one_time)
        ELSE IF key = "recurring" THEN OptNum(asset.charges.recurring)
        ELSE VNone
    ELSE VNone

IsDictNode(v) == v.t = "obj" /\ v.s # "list"

\* keys = path.split('.'); a path string is held as its list of segments
RECURSIVE NestedWalk(_, _, _, _)
NestedWalk(a, value, keys, idx) ==
    IF idx > Len(keys) THEN value
    ELSE IF IsDictNode(value) THEN NestedWalk(a, DictGet(a, value.s, keys[idx]), keys, idx + 1)
    ELSE VNone

get_nested_value(a, path) == NestedWalk(a, VObj("assets"), path, 1)

\* field_path = check.get('field', ''): ''.split('.') is ['']
check_status(chk, a) ==
    LET field_path == IF IsNone(chk.field) THEN <<"">> ELSE Val(chk.field)
        expected_value == chk.expected_value
        value == get_nested_value(a, field_path) IN
    Ret(value = expected_value)

check_custom(chk, a) == Ret(TRUE)

-----------------------------------------------------------------------------
(* ValidationEngine: dispatcher and check sets *)

Dispatch(chk, a) ==
    IF chk.validation_type = "presence" THEN check_presence(chk, a)
    ELSE IF chk.validation_type = "charges" THEN check_charges(chk, a)
    ELSE IF chk.validation_type = "status" THEN check_status(chk, a)
    ELSE IF chk.validation_type = "custom" THEN check_custom(chk, a)
    ELSE Ret(FALSE)

\* (mutant) the dispatcher without its try/except
execute_check_unguarded(chk, a) == Dispatch(chk, a)

\* try: ... except Exception: return False
execute_check(chk, a) ==
    LET o == Dispatch(chk, a) IN
    IF o.raised THEN Ret(FALSE) ELSE o

\* results[check_id] = result on an insertion-ordered dict
DictSet(d, key, data) ==
    IF \E k \in DOMAIN d : d[k].key = key
        THEN [k \in DOMAIN d |-> IF d[k].key = key THEN [key |-> key, data |-> data] ELSE d[k]]
        ELSE Append(d, [key |-> key, data |-> data])

\* the loop "for check in checks": results and log after the checks from idx on;
\* an exception escaping _execute_check leaves the loop
RECURSIVE ChecksLoop(_, _, _, _, _, _)
ChecksLoop(checks, a, idx, results, lg, tag) ==
    IF idx > Len(checks) THEN [raised |-> FALSE, results |-> results, log |-> lg]
    ELSE LET o == execute_check(checks[idx], a) IN
         IF o.raised THEN [raised |-> TRUE, results |-> results, log |-> lg]
         ELSE ChecksLoop(checks, a, idx + 1,
                         DictSet(results, checks[idx].id, o.value),
                         Append(lg, [set |-> tag, idx |-> idx, id |-> checks[idx].id,
                                     result |-> o.value]),
                         tag)

\* (mutant) status taken from the passed count alone
CheckStats_any_passed(results) ==
    LET passed == Cardinality({k \in DOMAIN results : results[k].data})
        failed == Len(results) - passed IN
    [status |-> IF passed > 0 THEN "PASSED" ELSE "FAILED",
     checks |-> results,
     passed |-> passed,
     failed |-> failed,
     total |-> Len(results)]

\* "Calculate stats" of _run_basic_checks and _run_reason_checks
CheckStats(results) ==
    LET passed == Cardinality({k \in DOMAIN results : results[k].data})
        failed == Len(results) - passed IN
    [status |-> IF failed = 0 THEN "PASSED" ELSE "FAILED",
     checks |-> results,
     passed |-> passed,
     failed |-> failed,
     total |-> Len(results)]

run_basic_checks(cfg, a, lg) ==
    LET checks == IF IsNone(cfg.basic) THEN <<>> ELSE Val(cfg.basic)
        run == ChecksLoop(checks, a, 1, <<>>, lg, "basic") IN
    [raised |-> run.raised, value |-> CheckStats(run.results), log |-> run.log]

\* reason_config = validations_config.get('reason_based', {}).get(reason)
ReasonConfig(cfg, reason) ==
    IF reason \in DOMAIN cfg.reason_based THEN cfg.reason_based[reason] ELSE None

run_reason_checks(cfg, reason, a, lg) ==
    LET reason_config == ReasonConfig(cfg, reason) IN
    IF IsNone(reason_config)
        THEN [raised |-> FALSE,
              value |-> [status |-> "SKIPPED", reason |-> reason],
              log |-> lg]
        ELSE LET run == ChecksLoop(Val(reason_config), a, 1, <<>>, lg, reason) IN
             [raised |-> run.raised, value |-> CheckStats(run.results), log |-> run.log]

\* (mutant) "if reason is not None:"
Truthy_not_none(reason) == ~IsNone(reason)

\* "if reason:" - None and the empty string are both falsy
Truthy(reason) == ~IsNone(reason) /\ Val(reason) # ""

-----------------------------------------------------------------------------
(* Check Descriptors and configurations the engine is run with *)

Descriptor(id, vtype, logic, allow_zero, field, expected_value) ==
    [id |-> id, validation_type |-> vtype, logic |-> logic, allow_zero |-> allow_zero,
     field |-> field, expected_value |-> expected_value]

DeviceExists == Descriptor("chk1", "presence", "validate_device_exists", None, None, VNone)
SimPresent == Descriptor("chk2", "presence", "search_line_children_for_sim_card", None, None, VNone)
\* shares its id with DeviceExists: both write results["chk1"]
CustomCheck == Descriptor("chk1", "custom", "anything", None, None, VNone)
LineStatus == Descriptor("chk4", "status", "", None, Some(<<"line", "status">>), VStr("Active"))
LineChildrenCharges ==
    Descriptor("chk5", "charges", "validate_all_line_children_charges", Some(FALSE), None, VNone)

BasicDescriptors == {DeviceExists, SimPresent, CustomCheck}

\* the check lists a reason may be configured with
ReasonCheckLists == {<<>>, <<LineStatus>>, <<LineChildrenCharges>>}

ConfigReasons == {"Change Plan", "SIM Replacement"}

\* reason_based[r] = None: the configuration has no (non-empty) mapping for r
Configs ==
    [basic : {None} \cup {Some(c) : c \in SeqsUpTo(BasicDescriptors, MaxChecks)},
     reason_based : {[r \in ConfigReasons |-> IF r = "Change Plan" THEN cp ELSE sr] :
                        cp \in {None} \cup {Some(c) : c \in ReasonCheckLists},
                        sr \in {None, Some(<<LineStatus>>)}}]

\* a complete bundle, and one with no device, a suspended line and a null entry
\* among the line children
EngineBundles ==
    {Bundle(Some(Asset("DEV-1", Some("Active"), GoodCharges)),
            <<Asset(SIM_CODE, Some("Active"), GoodCharges)>>, <<>>),
     [line |-> Some(Asset("ML-UNLIM", Some("Suspended"), GoodCharges)),
      device |-> None,
      line_children |-> <<NotAMapping>>,
      device_children |-> <<>>]}

\* reasons as they come from an order history: null, empty, configured or not
ReasonValues == {None, Some(""), Some("Change Plan"), Some("SIM Replacement")}

-----------------------------------------------------------------------------
(* Spec: ValidationEngine.validate_for_msisdn *)

ChargesIdle == check = None /\ result = None
VerdictIdle == validation_data = None /\ response = None
EngineIdle ==
    /\ config = None /\ order_reasons = <<>> /\ ri = 0 /\ basic_results = None
    /\ reason_results = <<>> /\ log = <<>> /\ final_result = None

Init ==
    /\ assets \in EngineBundles
    /\ config \in Configs
    /\ order_reasons \in SeqsUpTo(ReasonValues, MaxReasons)
    /\ pc = "start"
    /\ ri = 0
    /\ basic_results = None
    /\ reason_results = <<>>
    /\ log = <<>>
    /\ final_result = None
    /\ PipelineIdle
    /\ ChargesIdle
    /\ VerdictIdle

\* Step 1: basic_results = self._run_basic_checks(assets)
RunBasicChecks ==
    /\ pc = "start"
    /\ LET r == run_basic_checks(config, assets, log) IN
       IF r.raised
           THEN /\ pc' = "raised"
                /\ UNCHANGED <<basic_results, log, ri>>
           ELSE /\ basic_results' = Some(r.value)
                /\ log' = r.log
                /\ ri' = 1
                /\ pc' = "reasons"
    /\ UNCHANGED pipelineVars
    /\ UNCHANGED <<assets, check, result, config, order_reasons, reason_results,
                   final_result, validation_data, response>>

\* Step 2, "if reason:" false - the reason is passed over
SkipReason ==
    /\ pc = "reasons"
    /\ ri <= Len(order_reasons)
    /\ ~Truthy(order_reasons[ri])
    /\ ri' = ri + 1
    /\ UNCHANGED pipelineVars
    /\ UNCHANGED <<assets, check, result, config, order_reasons, pc, basic_results,
                   reason_results, log, final_result, validation_data, response>>

\* Step 2: reason_results[reason] = self._run_reason_checks(reason, assets)
RunReasonChecks ==
    /\ pc = "reasons"
    /\ ri <= Len(order_reasons)
    /\ Truthy(order_reasons[ri])
    /\ LET reason == Val(order_reasons[ri])
           r == run_reason_checks(config, reason, assets, log) IN
       IF r.raised
           THEN /\ pc' = "raised"
                /\ UNCHANGED <<reason_results, log, ri>>
           ELSE /\ reason_results' = DictSet(reason_results, reason, r.value)
                /\ log' = r.log
                /\ ri' = ri + 1
                /\ pc' = pc
    /\ UNCHANGED pipelineVars
    /\ UNCHANGED <<assets, check, result, config, order_reasons, basic_results,
                   final_result, validation_data, response>>

\* Step 3: return {"basic": basic_results, "reason_based": reason_results}
ReturnResult ==
    /\ pc = "reasons"
    /\ ri > Len(order_reasons)
    /\ final_result' = Some([basic |-> Val(basic_results), reason_based |-> reason_results])
    /\ pc' = "done"
    /\ UNCHANGED pipelineVars
    /\ UNCHANGED <<assets, check, result, config, order_reasons, ri, basic_results,
                   reason_results, log, validation_data, response>>

Next == RunBasicChecks \/ SkipReason \/ RunReasonChecks \/ ReturnResult

Spec == Init /\ [][Next]_vars

-----------------------------------------------------------------------------
(* Properties of validate_for_msisdn *)

BasicChecks == IF IsNone(config.basic) THEN <<>> ELSE Val(config.basic)

\* what a check yields on the bundle when it is executed on its own
CheckHolds(chk, a) == LET o == Dispatch(chk, a) IN ~o.raised /\ o.value
CheckRaises(chk, a) == Dispatch(chk, a).raised

DescriptorOf(e) ==
    IF e.set = "basic" THEN BasicChecks[e.idx] ELSE Val(config.reason_based[e.set])[e.idx]

Logged(set, idx) == \E k \in DOMAIN log : log[k].set = set /\ log[k].idx = idx

ProducedSets ==
    (IF IsNone(basic_results) THEN {} ELSE {<<Val(basic_results), BasicChecks>>})
    \cup {<<reason_results[k].data, Val(config.reason_based[reason_results[k].key])>> :
            k \in {j \in DOMAIN reason_results : reason_results[j].data.status # "SKIPPED"}}

StatsConsistent(rs) ==
    /\ rs.status \in {"PASSED", "FAILED"}
    /\ rs.status = "FAILED" <=> \E k \in DOMAIN rs.checks : ~rs.checks[k].data
    /\ rs.passed = Cardinality({k \in DOMAIN rs.checks : rs.checks[k].data})
    /\ rs.passed + rs.failed = rs.total
    /\ rs.total = Len(rs.checks)

IdsOf(checks) == {checks[i].id : i \in DOMAIN checks}

\* C9 (as claimed): status, counts, and total = number of check descriptors.
C9_TotalIsDescriptorCount ==
    \A p \in ProducedSets : StatsConsistent(p[1]) /\ p[1].total = Len(p[2])

\* C9 (amended): every Check Result Set is FAILED iff an entry of its checks
\* map is false and PASSED otherwise, passed + failed = total, and total is the
\* number of distinct check ids of the descriptor list (the number of
\* descriptors when their ids are distinct); an empty list gives PASSED, 0.
C9_ResultSetStats ==
    \A p \in ProducedSets :
        /\ StatsConsistent(p[1])
        /\ p[1].total = Cardinality(IdsOf(p[2]))
        /\ {p[1].checks[k].key : k \in DOMAIN p[1].checks} = IdsOf(p[2])
        /\ p[2] = <<>> => (p[1].status = "PASSED" /\ p[1].total = 0)

C9_Witness ==
    \E p \in ProducedSets :
        p[1].status = "FAILED" /\ p[1].passed = 1 /\ p[1].failed = 1 /\ Len(p[2]) = 2

\* the distinct elements of a sequence in first-occurrence order
RECURSIVE FirstOccurrences(_)
FirstOccurrences(seq) ==
    IF seq = <<>> THEN <<>>
    ELSE LET front == FirstOccurrences(SubSeq(seq, 1, Len(seq) - 1))
             last == seq[Len(seq)] IN
         IF \E k \in DOMAIN front : front[k] = last THEN front ELSE Append(front, last)

SelectReasons(Keep(_)) ==
    LET idxs == {j \in DOMAIN order_reasons : Keep(order_reasons[j])}
        F[n \in 0..Len(order_reasons)] ==
            IF n = 0 THEN <<>>
            ELSE IF n \in idxs THEN Append(F[n - 1], Val(order_reasons[n])) ELSE F[n - 1]
    IN F[Len(order_reasons)]

NonNull(r) == ~IsNone(r)
NonEmpty(r) == ~IsNone(r) /\ Val(r) # ""

ReasonKeys == [k \in DOMAIN Val(final_result).reason_based |-> Val(final_result).reason_based[k].key]

\* the basic result as the bundle and the basic descriptors alone decide it:
\* per id, the result of the last descriptor carrying that id
BasicDecidedByBundle(rs) ==
    /\ {rs.checks[k].key : k \in DOMAIN rs.checks} = IdsOf(BasicChecks)
    /\ \A k \in DOMAIN rs.checks :
          LET last == CHOOSE i \in DOMAIN BasicChecks :
                          /\ BasicChecks[i].id = rs.checks[k].key
                          /\ \A j \in DOMAIN BasicChecks :
                                BasicChecks[j].id = rs.checks[k].key => j <= i
          IN rs.checks[k].data = CheckHolds(BasicChecks[last], assets)

SkippedIffNoConfig ==
    \A k \in DOMAIN Val(final_result).reason_based :
        LET e == Val(final_result).reason_based[k] IN
        e.data.status = "SKIPPED" <=> (e.key \notin DOMAIN config.reason_based
                                        \/ IsNone(config.reason_based[e.key]))

\* C10 (as claimed): one reason_based entry per distinct non-null input reason.
C10_EntryPerNonNullReason ==
    pc = "done" => ReasonKeys = FirstOccurrences(SelectReasons(NonNull))

\* C10 (amended): validate_for_msisdn always evaluates the basic set and returns
\* exactly one reason_based entry per distinct input reason that is neither null
\* nor the empty string, in first-occurrence order; an entry is SKIPPED iff the
\* configuration has no descriptor set for its reason; the basic Check Result
\* Set is decided by the bundle and the basic descriptors alone.
C10_EntryPerReason ==
    pc = "done" =>
        /\ ~IsNone(final_result)
        /\ Val(final_result).basic.status \in {"PASSED", "FAILED"}
        /\ BasicDecidedByBundle(Val(final_result).basic)
        /\ ReasonKeys = FirstOccurrences(SelectReasons(NonEmpty))
        /\ SkippedIffNoConfig

C10_Witness ==
    /\ pc = "done"
    /\ order_reasons = <<Some("SIM Replacement"), None, Some("Change Plan")>>
    /\ ReasonKeys = <<"SIM Replacement", "Change Plan">>
    /\ Val(final_result).reason_based[1].data.status = "SKIPPED"
    /\ Val(final_result).reason_based[2].data.status = "FAILED"

-----------------------------------------------------------------------------
(* SpecCharges: ValidationEngine._check_charges over bounded Asset Bundles *)

ChargedAssets(codes) ==
    [mapping : {TRUE}, id : {Some("a1")}, product_code : codes,
     status : {Some("Active")}, charges : ChargesFields]

\* bundles in which one of device, line children, device children varies
ChargeBundles ==
    {Bundle(d, <<>>, <<>>) : d \in {None} \cup {Some(x) : x \in ChargedAssets({"DEV-1"})}}
    \cup {Bundle(None, lc, <<>>) :
            lc \in SeqsUpTo(ChargedAssets({SIM_CODE, "ADDON-1"}) \cup {NotAMapping}, MaxChildren)}
    \cup {Bundle(None, <<>>, dc) :
            dc \in SeqsUpTo(ChargedAssets({"ADDON-1"}) \cup {NotAMapping}, MaxChildren)}

ChargeLogics ==
    {"validate_device_charges", "validate_all_line_children_charges",
     "validate_all_device_children_charges", "validate_sim_card_charges",
     "validate_line_charges"}

ChargeChecks ==
    {Descriptor("chk1", "charges", l, z, None, VNone) :
        l \in ChargeLogics, z \in {None, Some(TRUE), Some(FALSE)}}

InitCharges ==
    /\ assets \in ChargeBundles
    /\ check \in {Some(c) : c \in ChargeChecks}
    /\ result = None
    /\ pc = "charges"
    /\ PipelineIdle
    /\ EngineIdle
    /\ VerdictIdle

CheckCharges ==
    /\ pc = "charges"
    /\ result' = Some(check_charges(Val(check), assets))
    /\ pc' = "charges_done"
    /\ UNCHANGED pipelineVars
    /\ UNCHANGED <<assets, check, config, order_reasons, ri, basic_results,
                   reason_results, log, final_result, validation_data, response>>

NextCharges == CheckCharges

SpecCharges == InitCharges /\ [][NextCharges]_vars

\* the check under evaluation and what it returned
ChargeLogic == Val(check).logic
ChargeAllowZero == AllowZeroOf(Val(check))
ChargesDone == pc = "charges_done"
ChargePassed == ~Val(result).raised /\ Val(result).value

\* the charge rule as the specification words it
HasChargeValue(asset) ==
    /\ asset.mapping
    /\ asset.charges.kind = "dict"
    /\ ~(IsNone(asset.charges.one_time) /\ IsNone(asset.charges.recurring))

HasPositiveCharge(asset) ==
    /\ asset.mapping
    /\ asset.charges.kind = "dict"
    /\ \/ (~IsNone(asset.charges.one_time) /\ Val(asset.charges.one_time) > 0)
       \/ (~IsNone(asset.charges.recurring) /\ Val(asset.charges.recurring) > 0)

SatisfiesChargeRule(asset, allow_zero) ==
    HasChargeValue(asset) /\ (allow_zero \/ HasPositiveCharge(asset))

AllMappings(children) == \A k \in DOMAIN children : children[k].mapping

FirstSim(children) ==
    children[CHOOSE k \in DOMAIN children :
                /\ children[k].product_code = SIM_CODE
                /\ \A j \in 1..(k - 1) : children[j].product_code # SIM_CODE]

HasSim(children) == \E k \in DOMAIN children : children[k].product_code = SIM_CODE

\* the targets a strategy judges, when it has any
ChargeTargets ==
    IF ChargeLogic = "validate_device_charges"
        THEN IF IsNone(assets.device) THEN {} ELSE {Val(assets.device)}
    ELSE IF ChargeLogic = "validate_all_line_children_charges"
        THEN {assets.line_children[k] : k \in DOMAIN assets.line_children}
    ELSE IF ChargeLogic = "validate_all_device_children_charges"
        THEN {assets.device_children[k] : k \in DOMAIN assets.device_children}
    ELSE IF ChargeLogic = "validate_sim_card_charges"
        THEN IF HasSim(assets.line_children) /\ AllMappings(assets.line_children)
                THEN {FirstSim(assets.line_children)} ELSE {}
    ELSE {}

\* C5: with allow_zero = true (explicit or by default) every charge strategy
\* passes a target that has at least one non-null charge value, zero included,
\* and fails a target whose pair is {null, null} or whose charges field is
\* missing or not a mapping.
C5_AllowZeroNeedsOnlyAValue ==
    (ChargesDone /\ ChargeAllowZero /\ ChargeTargets # {})
        => (ChargePassed <=> \A t \in ChargeTargets : HasChargeValue(t))

C5_Witness ==
    /\ ChargesDone /\ ChargeAllowZero /\ ChargePassed
    /\ ChargeLogic = "validate_sim_card_charges"
    /\ \E t \in ChargeTargets :
          t.charges.one_time = Some(0) /\ t.charges.recurring = Some(0)

\* C6 (as claimed): with allow_zero = false a charge strategy passes only if
\* some target value is non-null and strictly greater than zero.
C6_PassNeedsPositiveCharge ==
    (ChargesDone /\ ~ChargeAllowZero /\ ChargeTargets # {} /\ ChargePassed)
        => \A t \in ChargeTargets : HasPositiveCharge(t)

\* C7 (as claimed): the children strategies pass an empty list, and pass a
\* non-empty list iff every child satisfies the charge rule.
C7_ChildrenAllOrVacuous ==
    (ChargesDone /\ ChargeLogic \in {"validate_all_line_children_charges",
                                     "validate_all_device_children_charges"})
        => (ChargePassed <=> \A t \in ChargeTargets : SatisfiesChargeRule(t, ChargeAllowZero))

\* the part of C7 that does not rest on the sign of a charge: an empty children
\* list passes for both values of allow_zero, and one child without a charge
\* value fails the check
C7_VacuousPass ==
    (ChargesDone /\ ChargeLogic \in {"validate_all_line_children_charges",
                                     "validate_all_device_children_charges"})
        => /\ (ChargeTargets = {} => ChargePassed)
           /\ ((\E t \in ChargeTargets : ~HasChargeValue(t)) => ~ChargePassed)

-----------------------------------------------------------------------------
(* SpecStatus: a status check run through ValidationEngine._execute_check *)

\* dot paths a status descriptor may carry; a missing 'field' is None
StatusFields ==
    {None, Some(<<"line", "status">>), Some(<<"device", "status">>),
     Some(<<"line", "nope">>), Some(<<"line", "status", "x">>),
     Some(<<"line", "charges", "one_time">>), Some(<<"line_children", "status">>)}

\* configured expected values; VNone is a missing (or null) 'expected_value'
StatusExpected == {VNone, VStr("Active"), VNum(5)}

StatusChecks ==
    {Descriptor("chk4", "status", "", None, f, x) : f \in StatusFields, x \in StatusExpected}

StatusBundles ==
    [line : {None} \cup {Some(Asset("ML-UNLIM", s, GoodCharges)) :
                            s \in {None, Some("Active"), Some("Suspended")}},
     device : {None, Some(Asset("DEV-1", Some("Active"), GoodCharges))},
     line_children : {<<>>},
     device_children : {<<>>}]

InitStatus ==
    /\ assets \in StatusBundles
    /\ check \in {Some(c) : c \in StatusChecks}
    /\ result = None
    /\ pc = "status"
    /\ PipelineIdle
    /\ EngineIdle
    /\ VerdictIdle

CheckStatus ==
    /\ pc = "status"
    /\ result' = Some(execute_check(Val(check), assets))
    /\ pc' = "status_done"
    /\ UNCHANGED pipelineVars
    /\ UNCHANGED <<assets, check, config, order_reasons, ri, basic_results,
                   reason_results, log, final_result, validation_data, response>>

NextStatus == CheckStatus

SpecStatus == InitStatus /\ [][NextStatus]_vars

StatusDone == pc = "status_done"
StatusPassed == ~Val(result).raised /\ Val(result).value
StatusMalformed == IsNone(Val(check).field) \/ Val(check).expected_value = VNone
\* the value the configured path leads to in the bundle (VNone: it leads nowhere)
StatusResolved ==
    IF IsNone(Val(check).field) THEN VNone
    ELSE get_nested_value(assets, Val(Val(check).field))

\* C11: a status check whose path does not resolve in the bundle, or whose
\* descriptor lacks field or expected_value, yields false; a status check yields
\* true only when the path resolves to a value equal to the expected value
C11_StatusFalseUnlessResolvedEqual ==
    StatusDone =>
        /\ ((StatusMalformed \/ StatusResolved = VNone) => ~StatusPassed)
        /\ (StatusPassed => (StatusResolved # VNone /\ StatusResolved = Val(check).expected_value))

\* what the check does on every descriptor and bundle: it never raises and is
\* true iff the walked value (None when the path leads nowhere) equals the
\* configured value (None when there is none)
C11_StatusComparesWalkedValue ==
    StatusDone =>
        /\ ~Val(result).raised
        /\ (StatusPassed <=> StatusResolved = Val(check).expected_value)

\* a descriptor with a field and an expected value: false when the path does not
\* resolve, true exactly on equality
C11_WellFormedStatus ==
    (StatusDone /\ ~StatusMalformed) =>
        (StatusPassed <=> (StatusResolved # VNone /\ StatusResolved = Val(check).expected_value))

-----------------------------------------------------------------------------
(* ResponseBuilder._build_msisdn_response *)

\* d.get(key, default) on a dict held as a record
GetOr(d, key, default) == IF key \in DOMAIN d THEN d[key] ELSE default

EmptyDict == [x \in {} |-> 0]

\* (mutant) the loop without its break: the last non-skipped set wins
FirstNonSkipped_no_break(reason_checks) ==
    LET run == {k \in DOMAIN reason_checks :
                    GetOr(reason_checks[k].data, "status", "") # "SKIPPED"} IN
    IF run = {} THEN None
    ELSE Some(reason_checks[CHOOSE k \in run : \A j \in run : j <= k])

\* for reason_key, reason_data in reason_checks.items(): ... break
\* the first entry whose status is not SKIPPED, None when there is none
RECURSIVE FirstNonSkippedFrom(_, _)
FirstNonSkippedFrom(reason_checks, idx) ==
    IF idx > Len(reason_checks) THEN None
    ELSE IF GetOr(reason_checks[idx].data, "status", "") # "SKIPPED"
         THEN Some(reason_checks[idx])
    ELSE FirstNonSkippedFrom(reason_checks, idx + 1)

FirstNonSkipped(reason_checks) == FirstNonSkippedFrom(reason_checks, 1)

\* (mutant) the basic branch dropped from the reduction
ReduceStatus_no_basic_branch(basic_status, reason_status) ==
    IF reason_status = "FAILED" THEN "FAILED"
    ELSE IF basic_status = "PASSED" /\ (reason_status = "PASSED" \/ reason_status = "SKIPPED")
        THEN "PASSED"
    ELSE "PASSED_WITH_WARNINGS"

\* (mutant) a skipped reason no longer counts as passing
ReduceStatus_skipped_not_passed(basic_status, reason_status) ==
    IF basic_status = "FAILED" THEN "FAILED"
    ELSE IF reason_status = "FAILED" THEN "FAILED"
    ELSE IF basic_status = "PASSED" /\ reason_status = "PASSED" THEN "PASSED"
    ELSE "PASSED_WITH_WARNINGS"

\* "Overall validation status"
ReduceStatus(basic_status, reason_status) ==
    IF basic_status = "FAILED" THEN "FAILED"
    ELSE IF reason_status = "FAILED" THEN "FAILED"
    ELSE IF basic_status = "PASSED" /\ (reason_status = "PASSED" \/ reason_status = "SKIPPED")
        THEN "PASSED"
    ELSE "PASSED_WITH_WARNINGS"

\* (mutant) warnings never change the status
ApplyWarnings_ignored(validation_status, warnings) == validation_status

\* if warnings and validation_status == "PASSED"
ApplyWarnings(validation_status, warnings) ==
    IF warnings # <<>> /\ validation_status = "PASSED"
        THEN "PASSED_WITH_WARNINGS"
        ELSE validation_status

build_msisdn_response(vd) ==
    LET validations == GetOr(vd, "validations", EmptyDict)
        warnings == GetOr(vd, "warnings", <<>>)
        basic_checks == GetOr(validations, "basic", EmptyDict)
        reason_checks == GetOr(validations, "reason_based", <<>>)
        basic_status == GetOr(basic_checks, "status", "SKIPPED")
        basic_passed == GetOr(basic_checks, "passed", 0)
        basic_failed == GetOr(basic_checks, "failed", 0)
        basic_total == GetOr(basic_checks, "total", 0)
        first == FirstNonSkipped(reason_checks)
        reason_data == IF IsNone(first) THEN EmptyDict ELSE Val(first).data
        reason_status == GetOr(reason_data, "status", "SKIPPED")
        reason_passed == GetOr(reason_data, "passed", 0)
        reason_failed == GetOr(reason_data, "failed", 0)
        reason_total == GetOr(reason_data, "total", 0)
        validation_status == ApplyWarnings(ReduceStatus(basic_status, reason_status), warnings)
    IN [validation_status |-> validation_status,
        first_reason_key |-> IF IsNone(first) THEN None ELSE Some(Val(first).key),
        total_checks |-> basic_total + reason_total,
        passed_checks |-> basic_passed + reason_passed,
        failed_checks |-> basic_failed + reason_failed,
        has_warnings_block |-> warnings # <<>>,
        notes |-> IF validation_status = "PASSED" THEN "all_passed"
                  ELSE IF validation_status = "PASSED_WITH_WARNINGS" THEN "passed_review_warnings"
                  ELSE "failed"]

-----------------------------------------------------------------------------
(* SpecVerdict: the verdict reduction over engine-shaped validation data *)

\* the Check Result Sets the engine returns for n checks with given outcomes
RECURSIVE ResultsOf(_)
ResultsOf(outcomes) ==
    IF outcomes = <<>> THEN <<>>
    ELSE Append(ResultsOf(SubSeq(outcomes, 1, Len(outcomes) - 1)),
                [key |-> <<"chk", Len(outcomes)>>, data |-> outcomes[Len(outcomes)]])

EngineResultSets == {CheckStats(ResultsOf(o)) : o \in SeqsUpTo(BOOLEAN, MaxSetChecks)}

SkippedSet == [status |-> "SKIPPED", reason |-> "No validation config"]

\* reason_based dicts: the k-th inserted key is named by its position
ReasonBasedDicts ==
    {[k \in DOMAIN d |-> [key |-> <<"reason", k>>, data |-> d[k]]] :
        d \in SeqsUpTo(EngineResultSets \cup {SkippedSet}, MaxReasonSets)}

\* validate_orders_yesterday hands over a "basic" dict without status or counts
\* and no "reason_based" key (main.py lines 274-277)
LegacyValidations ==
    [basic |-> [lines_present |-> TRUE, device_linked |-> TRUE, all_passed |-> TRUE],
     order_specific |-> <<>>]

WarningLists == {<<>>, <<[asset_id |-> "a1", modified_by |-> "user1"]>>}

ValidationData ==
    [validations : [basic : EngineResultSets, reason_based : ReasonBasedDicts]
                   \cup {LegacyValidations},
     warnings : WarningLists]

InitVerdict ==
    /\ validation_data \in {Some(vd) : vd \in ValidationData}
    /\ response = None
    /\ pc = "build"
    /\ assets = None
    /\ PipelineIdle
    /\ ChargesIdle
    /\ EngineIdle

BuildMsisdnResponse ==
    /\ pc = "build"
    /\ response' = Some(build_msisdn_response(Val(validation_data)))
    /\ pc' = "built"
    /\ UNCHANGED pipelineVars
    /\ UNCHANGED <<assets, check, result, config, order_reasons, ri, basic_results,
                   reason_results, log, final_result, validation_data>>

NextVerdict == BuildMsisdnResponse

SpecVerdict == InitVerdict /\ [][NextVerdict]_vars

Built == pc = "built"
Verdict == Val(response).validation_status
InBasic == Val(validation_data).validations.basic
InReasons == GetOr(Val(validation_data).validations, "reason_based", <<>>)
InWarnings == Val(validation_data).warnings
InBasicStatus == GetOr(InBasic, "status", "none")
ReasonStatus(k) == InReasons[k].data.status

\* index of the first reason-based set that is not SKIPPED (at most one index)
FirstRun ==
    {k \in DOMAIN InReasons :
        ReasonStatus(k) # "SKIPPED" /\ \A j \in 1..(k - 1) : ReasonStatus(j) = "SKIPPED"}

\* C1: whenever the basic set is FAILED the verdict is FAILED, for every
\* combination of reason-based statuses and every warnings list.
C1_BasicFailedIsFailed ==
    (Built /\ InBasicStatus = "FAILED") => Verdict = "FAILED"

C1_Witness ==
    /\ Built /\ InBasicStatus = "FAILED" /\ InWarnings # <<>>
    /\ \E k \in FirstRun : ReasonStatus(k) = "PASSED"
    /\ Verdict = "FAILED"

\* C2: basic PASSED, every reason-based set SKIPPED (or none) and no warning
\* give the verdict PASSED.
C2_AllSkippedIsPassed ==
    (Built /\ InBasicStatus = "PASSED" /\ InWarnings = <<>>
           /\ \A k \in DOMAIN InReasons : ReasonStatus(k) = "SKIPPED")
        => Verdict = "PASSED"

C2_Witness ==
    /\ Built /\ InBasicStatus = "PASSED" /\ InWarnings = <<>>
    /\ Len(InReasons) = 2 /\ \A k \in DOMAIN InReasons : ReasonStatus(k) = "SKIPPED"
    /\ Verdict = "PASSED"

\* C3 (as claimed): basic PASSED and a warning give PASSED_WITH_WARNINGS
\* whatever the reason-based sets are.
C3_WarningAlwaysWins ==
    (Built /\ InBasicStatus = "PASSED" /\ InWarnings # <<>>)
        => Verdict = "PASSED_WITH_WARNINGS"

\* C3 (amended): with basic PASSED and at least one warning the verdict is
\* PASSED_WITH_WARNINGS unless the first non-skipped reason-based set is
\* FAILED, in which case it is FAILED.
C3_WarningUnlessReasonFailed ==
    (Built /\ InBasicStatus = "PASSED" /\ InWarnings # <<>>)
        => Verdict = (IF \E k \in FirstRun : ReasonStatus(k) = "FAILED"
                        THEN "FAILED" ELSE "PASSED_WITH_WARNINGS")

C3_Witness ==
    /\ Built /\ InBasicStatus = "PASSED" /\ InWarnings # <<>>
    /\ \E k \in FirstRun : ReasonStatus(k) = "PASSED"
    /\ Verdict = "PASSED_WITH_WARNINGS"

\* C4: only the first non-skipped reason-based set counts: with basic PASSED
\* and no warning the verdict is FAILED iff that set is FAILED, and the check
\* counts are those of the basic set plus that set, whatever later sets hold.
C4_FirstNonSkippedDecides ==
    Built =>
        /\ (InBasicStatus = "PASSED" /\ InWarnings = <<>>)
              => /\ Verdict = "FAILED" <=> \E k \in FirstRun : ReasonStatus(k) = "FAILED"
                 /\ Verdict \in {"FAILED", "PASSED"}
        /\ \A k \in FirstRun :
              /\ Val(response).total_checks = GetOr(InBasic, "total", 0) + InReasons[k].data.total
              /\ Val(response).passed_checks = GetOr(InBasic, "passed", 0) + InReasons[k].data.passed
              /\ Val(response).failed_checks = GetOr(InBasic, "failed", 0) + InReasons[k].data.failed
        /\ FirstRun = {} =>
              /\ Val(response).total_checks = GetOr(InBasic, "total", 0)
              /\ Val(response).passed_checks = GetOr(InBasic, "passed", 0)
              /\ Val(response).failed_checks = GetOr(InBasic, "failed", 0)

C4_Witness ==
    /\ Built /\ InBasicStatus = "PASSED" /\ InWarnings = <<>>
    /\ Len(InReasons) = 3
    /\ ReasonStatus(1) = "SKIPPED" /\ ReasonStatus(2) = "PASSED" /\ ReasonStatus(3) = "FAILED"
    /\ Verdict = "PASSED"
    /\ Val(response).failed_checks = 0

-----------------------------------------------------------------------------
(* OrderFilter (src/modules/order_filter.py) *)

\* Order reasons and creation timestamps are Python strings the code lowers,
\* searches and compares: they are held as sequences of characters.
R_DisconnectRequest == <<"D", "i", "s", "c", "o", "n", "n", "e", "c", "t", " ", "R", "e", "q", "u", "e", "s", "t">>
R_Upgrade == <<"U", "p", "g", "r", "a", "d", "e">>
R_Duplicate == <<"D", "u", "p", "l", "i", "c", "a", "t", "e">>
R_PRE_DISCONNECTION == <<"P", "R", "E", "-", "D", "I", "S", "C", "O", "N", "N", "E", "C", "T", "I", "O", "N">>
DISCONNECT == <<"d", "i", "s", "c", "o", "n", "n", "e", "c", "t">>
\* CreatedDate values of one fixed format
T09 == <<"0", "9">>
T10 == <<"1", "0">>

UpperCase == <<"A", "B", "C", "D", "E", "F", "G", "H", "I", "J", "K", "L", "M", "N", "O", "P", "Q", "R", "S", "T", "U", "V", "W", "X", "Y", "Z">>
LowerCase == <<"a", "b", "c", "d", "e", "f", "g", "h", "i", "j", "k", "l", "m", "n", "o", "p", "q", "r", "s", "t", "u", "v", "w", "x", "y", "z">>
Digits == <<"0", "1", "2", "3", "4", "5", "6", "7", "8", "9">>

LowerChar(c) ==
    IF \E i \in DOMAIN UpperCase : UpperCase[i] = c
        THEN LowerCase[CHOOSE i \in DOMAIN UpperCase : UpperCase[i] = c]
        ELSE c

\* (mutant) the reason compared as it was written
Lower_as_written(s) == s

\* str(reason).lower()
Lower(s) == [i \in 1..Len(s) |-> LowerChar(s[i])]

\* needle in hay
Contains(hay, needle) ==
    \E i \in 0..(Len(hay) - Len(needle)) : SubSeq(hay, i + 1, i + Len(needle)) = needle

\* value in list
InList(value, list) == \E i \in DOMAIN list : list[i] = value

CharOrd(c) == CHOOSE i \in DOMAIN Digits : Digits[i] = c

\* a > b on Python strings: lexicographic, a proper prefix is smaller
StrGreater(a, b) ==
    \E i \in 1..Len(a) :
        /\ \A j \in 1..(i - 1) : j <= Len(b) /\ a[j] = b[j]
        /\ (i > Len(b) \/ CharOrd(a[i]) > CharOrd(b[i]))

\* (mutant) "if new_date >= existing_date"
NewerThan_or_equal(new_date, existing_date) ==
    StrGreater(new_date, existing_date) \/ new_date = existing_date

\* "if new_date > existing_date"
NewerThan(new_date, existing_date) == StrGreater(new_date, existing_date)

\* an OrderItem record; Reason__c and Type are read through order["Order"],
\* CreatedDate is <<>> when the key is absent (.get("CreatedDate", "")), the
\* two flags are the keys step 5 adds
Order(msisdn, reason, type, created) ==
    [PR_MSISDN__c |-> msisdn, Reason__c |-> reason, Type |-> type, CreatedDate |-> created,
     has_multiple_orders |-> None, order_count |-> None]

filter_ignored_reasons(ords, ignore_reasons) ==
    IF ignore_reasons = <<>> THEN ords
    ELSE SelectSeq(ords, LAMBDA o : IsNone(o.Reason__c)
                                      \/ ~InList(Val(o.Reason__c), ignore_reasons))

filter_ignored_types(ords, ignore_types) ==
    IF ignore_types = <<>> THEN ords
    ELSE SelectSeq(ords, LAMBDA o : IsNone(o.Type) \/ ~InList(Val(o.Type), ignore_types))

filter_orders(ords) ==
    SelectSeq(ords, LAMBDA o :
        LET reason == IF IsNone(o.Reason__c) THEN <<>> ELSE Lower(Val(o.Reason__c)) IN
        ~Contains(reason, DISCONNECT))

HasKey(d, key) == \E k \in DOMAIN d : d[k].key = key
DictLookup(d, key) == d[CHOOSE k \in DOMAIN d : d[k].key = key].data

\* the loop of group_by_msisdn from position idx on; grouped[msisdn] refers to
\* the order object, held as its position in ords
RECURSIVE GroupLoop(_, _, _)
GroupLoop(ords, idx, g) ==
    IF idx > Len(ords) THEN g
    ELSE LET order == ords[idx]
             msisdn == order.PR_MSISDN__c IN
         IF IsNone(msisdn) \/ Val(msisdn) = "" THEN GroupLoop(ords, idx + 1, g)
         ELSE IF ~HasKey(g, Val(msisdn))
             THEN GroupLoop(ords, idx + 1, DictSet(g, Val(msisdn), idx))
         ELSE LET existing_date == ords[DictLookup(g, Val(msisdn))].CreatedDate
                  new_date == order.CreatedDate IN
              IF NewerThan(new_date, existing_date)
                  THEN GroupLoop(ords, idx + 1, DictSet(g, Val(msisdn), idx))
                  ELSE GroupLoop(ords, idx + 1, g)

group_by_msisdn(ords) == GroupLoop(ords, 1, <<>>)

\* (mutant) only orders not flagged yet are counted
MsisdnOrders_unflagged(ords, msisdn) ==
    {i \in DOMAIN ords : ords[i].PR_MSISDN__c = Some(msisdn) /\ IsNone(ords[i].order_count)}

\* [o for o in filtered if o.get("PR_MSISDN__c") == msisdn]
MsisdnOrders(ords, msisdn) == {i \in DOMAIN ords : ords[i].PR_MSISDN__c = Some(msisdn)}

\* (mutant) "len(msisdn_orders) > 0"
HasMultiple_nonempty(n) == n > 0

\* has_multiple = len(msisdn_orders) > 1
HasMultiple(n) == n > 1

\* step 5, "for msisdn in grouped", from entry k of grouped on: the flags are
\* written into the order object grouped[msisdn], which is an element of ords
RECURSIVE FlagLoop(_, _, _)
FlagLoop(g, ords, k) ==
    IF k > Len(g) THEN ords
    ELSE LET msisdn_orders == MsisdnOrders(ords, g[k].key)
             n == Cardinality(msisdn_orders) IN
         FlagLoop(g,
                  [ords EXCEPT ![g[k].data] =
                      [@ EXCEPT !.has_multiple_orders = Some(HasMultiple(n)),
                                !.order_count = Some(n)]],
                  k + 1)

FlagMultiples(g, ords) == FlagLoop(g, ords, 1)

\* the orders a run is given: two identifiers, reasons with and without
\* "disconnect", two timestamps, and orders with a missing identifier, an
\* ignored reason, an ignored type, an upper-case reason, no timestamp
FilterOrders ==
    {Order(Some(m), r, Some("Change"), t) :
        m \in {"m1", "m2"}, r \in {None, Some(R_Upgrade)}, t \in {T09, T10}}
    \cup {Order(Some(m), Some(R_DisconnectRequest), Some("Change"), T10) : m \in {"m1", "m2"}}
    \cup {Order(None, Some(R_Upgrade), Some("Change"), T10),
          Order(Some(""), Some(R_Upgrade), Some("Change"), T10),
          Order(Some("m1"), Some(R_Duplicate), Some("Change"), T10),
          Order(Some("m1"), Some(R_Upgrade), Some("Cancel"), T10),
          Order(Some("m2"), Some(R_PRE_DISCONNECTION), None, T09),
          Order(Some("m1"), Some(R_Upgrade), Some("Change"), <<>>)}

\* no ignore lists, or one ignored reason and one ignored type
FilterConfigs ==
    {[ignore_order_reasons |-> <<>>, ignore_order_types |-> <<>>],
     [ignore_order_reasons |-> <<R_Duplicate>>, ignore_order_types |-> <<"Cancel">>]}

CoreIdle ==
    /\ assets = None /\ pc = "idle" /\ ChargesIdle /\ EngineIdle /\ VerdictIdle

InitFilter ==
    /\ orders \in SeqsUpTo(FilterOrders, MaxOrders)
    /\ filter_config \in {Some(c) : c \in FilterConfigs}
    /\ after_reasons = <<>>
    /\ after_types = <<>>
    /\ filtered = <<>>
    /\ grouped = <<>>
    /\ fpc = "start"
    /\ CoreIdle
    /\ ServiceIdle
    /\ ListIdle
    /\ FetchIdle
    /\ AssemblerIdle
    /\ BulkIdle

\* filter_and_group, steps 1 to 5
FilterAndGroup ==
    /\ fpc = "start"
    /\ LET ignore_reasons == Val(filter_config).ignore_order_reasons
           ignore_types == Val(filter_config).ignore_order_types
           f1 == filter_ignored_reasons(orders, ignore_reasons)
           f2 == filter_ignored_types(f1, ignore_types)
           f3 == filter_orders(f2)
           g == group_by_msisdn(f3) IN
       /\ after_reasons' = f1
       /\ after_types' = f2
       /\ grouped' = g
       /\ filtered' = FlagMultiples(g, f3)
    /\ fpc' = "flagged"
    /\ UNCHANGED <<orders, filter_config>>
    /\ UNCHANGED <<coreVars, fetchVars, assemblerVars, bulkVars, serviceVars, listVars>>

\* step 5 applied once more to the map and list the call ended with
FlagAgain ==
    /\ fpc = "flagged"
    /\ filtered' = FlagMultiples(grouped, filtered)
    /\ fpc' = "reflagged"
    /\ UNCHANGED <<orders, filter_config, after_reasons, after_types, grouped>>
    /\ UNCHANGED <<coreVars, fetchVars, assemblerVars, bulkVars, serviceVars, listVars>>

NextFilter == FilterAndGroup \/ FlagAgain

SpecFilter == InitFilter /\ [][NextFilter]_vars

\* the call has returned
FilterDone == fpc \in {"flagged", "reflagged"}

Unflagged(ords) ==
    [i \in DOMAIN ords |-> [ords[i] EXCEPT !.has_multiple_orders = None, !.order_count = None]]

\* the reasons of the runs that contain "disconnect" in some letter case
DisconnectReasons == {R_DisconnectRequest, R_PRE_DISCONNECTION}
IsDisconnect(o) == ~IsNone(o.Reason__c) /\ Val(o.Reason__c) \in DisconnectReasons
NullReason(o) == IsNone(o.Reason__c)

DisconnectExample ==
    <<Order(Some("m1"), Some(R_DisconnectRequest), Some("Change"), T10),
      Order(Some("m1"), Some(R_Upgrade), Some("Change"), T10)>>

\* C12: disconnect exclusion drops exactly the orders whose reason contains
\* "disconnect" in any letter case and keeps the others in their order; an order
\* with a null reason is dropped neither by it nor by reason exclusion; of
\* ["Disconnect Request", "Upgrade"] exactly the "Upgrade" order survives
C12_DisconnectExclusion ==
    FilterDone =>
        /\ Unflagged(filtered) = SelectSeq(after_types, LAMBDA o : ~IsDisconnect(o))
        /\ SelectSeq(after_reasons, NullReason) = SelectSeq(orders, NullReason)
        /\ SelectSeq(Unflagged(filtered), NullReason) = SelectSeq(after_types, NullReason)
        /\ (orders = DisconnectExample => Unflagged(filtered) = <<DisconnectExample[2]>>)

C12_Witness ==
    /\ FilterDone
    /\ orders = <<Order(Some("m2"), Some(R_PRE_DISCONNECTION), None, T09),
                  Order(Some("m2"), None, Some("Change"), T09),
                  Order(Some("m1"), Some(R_Upgrade), Some("Change"), T10)>>
    /\ Val(filter_config).ignore_order_reasons # <<>>
    /\ Unflagged(filtered) = <<orders[2], orders[3]>>

\* the time a CreatedDate string of the fixed format stands for; an order
\* without the key sorts before every time
TimeOf(created) ==
    IF created = <<>> THEN -1
    ELSE 10 * (CharOrd(created[1]) - 1) + (CharOrd(created[2]) - 1)

Identifiers(ords) ==
    {Val(ords[i].PR_MSISDN__c) : i \in {j \in DOMAIN ords : ~IsNone(ords[j].PR_MSISDN__c)}}
        \ {""}

OrdersOf(ords, m) == {i \in DOMAIN ords : ords[i].PR_MSISDN__c = Some(m)}

\* the first of the orders of m that carry m's greatest timestamp
LatestOf(ords, m) ==
    CHOOSE i \in OrdersOf(ords, m) :
        /\ \A j \in OrdersOf(ords, m) : TimeOf(ords[j].CreatedDate) <= TimeOf(ords[i].CreatedDate)
        /\ \A j \in OrdersOf(ords, m) :
               TimeOf(ords[j].CreatedDate) = TimeOf(ords[i].CreatedDate) => i <= j

GroupedKeys == {grouped[k].key : k \in DOMAIN grouped}

\* C13: the grouped map has one entry for each identifier with at least one
\* surviving order, holding that identifier's order with the greatest creation
\* timestamp, the first encountered among equals; orders without an identifier
\* never appear
C13_LatestPerIdentifier ==
    FilterDone =>
        /\ GroupedKeys = Identifiers(filtered)
        /\ \A k1, k2 \in DOMAIN grouped : grouped[k1].key = grouped[k2].key => k1 = k2
        /\ \A k \in DOMAIN grouped : grouped[k].data = LatestOf(filtered, grouped[k].key)

\* a tie on the greatest timestamp, a later order that is older, and an order
\* without an identifier
C13_Witness ==
    /\ FilterDone
    /\ Len(filtered) = 3
    /\ filtered[1].PR_MSISDN__c = Some("m1") /\ filtered[2].PR_MSISDN__c = Some("m1")
    /\ filtered[1].CreatedDate = T10 /\ filtered[2].CreatedDate = T10
    /\ filtered[1].Reason__c # filtered[2].Reason__c
    /\ filtered[3].PR_MSISDN__c = None
    /\ DictLookup(grouped, "m1") = 1
    /\ Len(grouped) = 1

IgnoredReason(o) ==
    ~IsNone(o.Reason__c) /\ InList(Val(o.Reason__c), Val(filter_config).ignore_order_reasons)
IgnoredType(o) ==
    ~IsNone(o.Type) /\ InList(Val(o.Type), Val(filter_config).ignore_order_types)
Survivors(m) ==
    {i \in OrdersOf(orders, m) :
        ~IgnoredReason(orders[i]) /\ ~IgnoredType(orders[i]) /\ ~IsDisconnect(orders[i])}

\* C14: for every identifier of the output, order_count is the number of that
\* identifier's orders that survived the three exclusion steps, at least 1, and
\* has_multiple_orders is true iff order_count > 1
C14_OrderCount ==
    FilterDone =>
        \A k \in DOMAIN grouped :
            LET rec == filtered[grouped[k].data]
                n == Cardinality(Survivors(grouped[k].key)) IN
            /\ rec.order_count = Some(n)
            /\ n >= 1
            /\ rec.has_multiple_orders = Some(n > 1)

\* an identifier with three orders of which two survived the exclusion steps
C14_Witness ==
    /\ fpc = "flagged"
    /\ \E k \in DOMAIN grouped :
          /\ Cardinality(OrdersOf(orders, grouped[k].key)) = 3
          /\ filtered[grouped[k].data].order_count = Some(2)
          /\ filtered[grouped[k].data].has_multiple_orders = Some(TRUE)

-----------------------------------------------------------------------------
(* OrderFetcher.get_orders and BulkValidator.validate_yesterday_orders *)

\* an outcome of get_orders: the queries it sent, and a raised error or a map
Fetched(q, value) == [raised |-> FALSE, error |-> "", queries |-> q, value |-> value]
FetchRaised(q, error) == [raised |-> TRUE, error |-> error, queries |-> q, value |-> <<>>]

\* the "for i, order in enumerate(records)" loop: the first record of each
\* identifier is kept
RECURSIVE FirstPerMsisdn(_, _, _)
FirstPerMsisdn(records, idx, g) ==
    IF idx > Len(records) THEN g
    ELSE LET msisdn == records[idx].PR_MSISDN__c IN
         IF IsNone(msisdn) \/ Val(msisdn) = "" THEN FirstPerMsisdn(records, idx + 1, g)
         ELSE IF ~HasKey(g, Val(msisdn))
             THEN FirstPerMsisdn(records, idx + 1, DictSet(g, Val(msisdn), records[idx]))
         ELSE FirstPerMsisdn(records, idx + 1, g)

\* self.sf.query_all(soql) and the grouping after it; src = None: the source
\* raises, and the except clause re-raises
QueryAndGroup(query, records, src) ==
    IF IsNone(src) THEN FetchRaised(<<query>>, "source")
    ELSE Fetched(<<query>>, FirstPerMsisdn(records, 1, <<>>))

get_latest_orders(cfg, src) ==
    QueryAndGroup([mode |-> "latest", reason |-> None],
                  IF IsNone(src) THEN <<>> ELSE Val(src), src)

\* (mutant) the query is built without validating the filter
get_filtered_orders_unchecked(cfg, src) ==
    LET reason_filter == cfg.order_reason_filter IN
    QueryAndGroup([mode |-> "filtered", reason |-> reason_filter],
                  IF IsNone(src) THEN <<>>
                  ELSE SelectSeq(Val(src), LAMBDA o : o.Reason__c = reason_filter),
                  src)

\* the source applies "Order.vlocity_cmt__Reason__c = '{reason_filter}'"
get_filtered_orders(cfg, src) ==
    LET reason_filter == cfg.order_reason_filter
        valid_reasons == cfg.valid_order_reasons IN
    IF IsNone(reason_filter) \/ Val(reason_filter) = <<>>
        THEN FetchRaised(<<>>, "ValueError: order_reason_filter required")
    ELSE IF valid_reasons # <<>> /\ ~InList(Val(reason_filter), valid_reasons)
        THEN FetchRaised(<<>>, "ValueError: invalid reason")
    ELSE QueryAndGroup([mode |-> "filtered", reason |-> reason_filter],
                       IF IsNone(src) THEN <<>>
                       ELSE SelectSeq(Val(src), LAMBDA o : o.Reason__c = reason_filter),
                       src)

get_orders(cfg, src) ==
    LET strategy == IF IsNone(cfg.fetch_strategy) THEN "latest" ELSE Val(cfg.fetch_strategy) IN
    IF strategy = "latest" THEN get_latest_orders(cfg, src)
    ELSE IF strategy = "filtered" THEN get_filtered_orders(cfg, src)
    ELSE FetchRaised(<<>>, "ValueError: unknown fetch_strategy")

\* list(orders.values())
DictValues(d) == [k \in DOMAIN d |-> d[k].data]
\* list(grouped_orders.keys())
DictKeys(d) == [k \in DOMAIN d |-> d[k].key]

FetchConfigs ==
    [fetch_strategy : {None, Some("latest"), Some("filtered"), Some("newest")},
     order_reason_filter : {None, Some(<<>>), Some(R_Upgrade), Some(R_Duplicate)},
     valid_order_reasons : {<<>>, <<R_Upgrade>>}]

\* what the record source holds, ordered by identifier and creation time
\* descending; None: the source is down
Sources ==
    {None,
     Some(<<>>),
     Some(<<Order(Some("m1"), Some(R_Upgrade), Some("Change"), T10),
            Order(Some("m1"), Some(R_Duplicate), Some("Change"), T09),
            Order(Some("m2"), Some(R_Upgrade), Some("Change"), T09)>>),
     Some(<<Order(Some("m1"), Some(R_DisconnectRequest), Some("Change"), T10),
            Order(Some("m2"), Some(R_Duplicate), Some("Change"), T10),
            Order(Some("m3"), None, Some("Change"), T09)>>),
     Some(<<Order(Some("m1"), Some(R_DisconnectRequest), Some("Change"), T10),
            Order(Some("m1"), Some(R_Upgrade), Some("Change"), T09),
            Order(Some("m2"), Some(R_Upgrade), Some("Cancel"), T10),
            Order(Some("m2"), None, Some("Change"), T09)>>)}

InitFetch ==
    /\ fetch_config \in {Some(c) : c \in FetchConfigs}
    /\ source \in Sources
    /\ queries = <<>>
    /\ fetch_error = None
    /\ fetched = <<>>
    /\ batch_msisdns = <<>>
    /\ batch_requests = {}
    /\ batch_filter \in {Some(c) : c \in FilterConfigs}
    /\ batch_grouped = <<>>
    /\ bpc = "start"
    /\ CoreIdle
    /\ ServiceIdle
    /\ ListIdle
    /\ FilterIdle
    /\ AssemblerIdle
    /\ BulkIdle

\* Step 1: orders = self.order_fetcher.get_orders(self.config); an exception
\* leaves validate_yesterday_orders through its "except ...: raise"
GetOrders ==
    /\ bpc = "start"
    /\ LET o == get_orders(Val(fetch_config), source) IN
       /\ queries' = queries \o o.queries
       /\ IF o.raised
             THEN /\ fetch_error' = Some(o.error)
                  /\ bpc' = "raised"
                  /\ UNCHANGED fetched
             ELSE /\ fetched' = o.value
                  /\ bpc' = "fetched"
                  /\ UNCHANGED fetch_error
    /\ UNCHANGED <<fetch_config, source, batch_msisdns, batch_requests, batch_filter,
                   batch_grouped>>
    /\ UNCHANGED <<coreVars, filterVars, assemblerVars, bulkVars, serviceVars, listVars>>

\* filter_and_group, steps 1 to 5, as a map from identifier to the flagged
\* order record
filter_and_group(ords, cfg) ==
    LET f1 == filter_ignored_reasons(ords, cfg.ignore_order_reasons)
        f2 == filter_ignored_types(f1, cfg.ignore_order_types)
        f3 == filter_orders(f2)
        g == group_by_msisdn(f3)
        flagged == FlagMultiples(g, f3) IN
    [k \in DOMAIN g |-> [key |-> g[k].key, data |-> flagged[g[k].data]]]

\* Step 2: grouped_orders = filter_and_group(list(orders.values()), config);
\* Step 3 is handed list(grouped_orders.keys())
GroupFetched ==
    /\ bpc = "fetched"
    /\ batch_grouped' = filter_and_group(DictValues(fetched), Val(batch_filter))
    /\ batch_msisdns' = DictKeys(batch_grouped')
    /\ bpc' = "grouped"
    /\ UNCHANGED <<fetch_config, source, queries, fetch_error, fetched, batch_requests,
                   batch_filter>>
    /\ UNCHANGED <<coreVars, filterVars, assemblerVars, bulkVars, serviceVars, listVars>>

\* Step 3: _validate_msisdns_batch posts one request per identifier
ValidateBatch ==
    /\ bpc = "grouped"
    /\ batch_requests' = {batch_msisdns[i] : i \in DOMAIN batch_msisdns}
    /\ bpc' = "validated"
    /\ UNCHANGED <<fetch_config, source, queries, fetch_error, fetched, batch_msisdns,
                   batch_filter, batch_grouped>>
    /\ UNCHANGED <<coreVars, filterVars, assemblerVars, bulkVars, serviceVars, listVars>>

NextFetch == GetOrders \/ GroupFetched \/ ValidateBatch

SpecFetch == InitFetch /\ [][NextFetch]_vars

FetchStrategy ==
    IF IsNone(Val(fetch_config).fetch_strategy) THEN "latest"
    ELSE Val(Val(fetch_config).fetch_strategy)
NoReasonConfigured ==
    Val(fetch_config).order_reason_filter \in {None, Some(<<>>)}
ReasonNotAllowed ==
    /\ ~NoReasonConfigured
    /\ Val(fetch_config).valid_order_reasons # <<>>
    /\ \A i \in DOMAIN Val(fetch_config).valid_order_reasons :
          Val(fetch_config).valid_order_reasons[i] # Val(Val(fetch_config).order_reason_filter)

\* the configuration errors of the Order Retriever
ConfigurationError ==
    \/ FetchStrategy \notin {"latest", "filtered"}
    \/ FetchStrategy = "filtered" /\ (NoReasonConfigured \/ ReasonNotAllowed)

\* C16: with an unknown fetch strategy, or the filtered strategy with no reason
\* configured or with a non-empty allow-list that does not contain the
\* configured reason, get_orders raises before any query is sent and the
\* yesterday batch issues no per-identifier validation request
C16_ConfigErrorAbortsFirst ==
    ConfigurationError =>
        /\ queries = <<>>
        /\ batch_requests = {}
        /\ bpc \in {"start", "raised"}
        /\ (bpc = "raised" => ~IsNone(fetch_error) /\ Val(fetch_error) # "source")

\* the filtered strategy with a reason outside the allow-list, on a source
\* that holds orders of that reason
C16_Witness ==
    /\ bpc = "raised"
    /\ FetchStrategy = "filtered"
    /\ ReasonNotAllowed
    /\ ~IsNone(source) /\ Len(Val(source)) = 3
    /\ fetch_error = Some("ValueError: invalid reason")

\* a well-configured run does reach the record source and the requests
C16_WitnessValidRun ==
    /\ bpc = "validated"
    /\ FetchStrategy = "filtered"
    /\ Len(queries) = 1
    /\ batch_requests = {"m1", "m2"}

\* the feed the record source answers the query of the run with
Feed ==
    IF IsNone(source) THEN <<>>
    ELSE IF FetchStrategy = "filtered"
        THEN SelectSeq(Val(source),
                       LAMBDA o : o.Reason__c = Val(fetch_config).order_reason_filter)
    ELSE Val(source)

BatchGrouped == bpc \in {"grouped", "validated"}

\* excluded by the reason, type or disconnect rule of the run
BatchExcluded(o) ==
    \/ ~IsNone(o.Reason__c) /\ InList(Val(o.Reason__c), Val(batch_filter).ignore_order_reasons)
    \/ ~IsNone(o.Type) /\ InList(Val(o.Type), Val(batch_filter).ignore_order_types)
    \/ IsDisconnect(o)

\* the orders of identifier m in the feed that no exclusion step drops
FeedSurvivors(m) ==
    {i \in DOMAIN Feed : Feed[i].PR_MSISDN__c = Some(m) /\ ~BatchExcluded(Feed[i])}

FeedIdentifiers == {"m1", "m2", "m3"}

\* C25: in the yesterday batch an identifier with k >= 2 orders of the fetched
\* feed that survive the exclusion steps is reported with order_count = k and
\* has_multiple_orders = true
C25_MultiOrderFlagged ==
    BatchGrouped =>
        \A m \in FeedIdentifiers :
            LET k == Cardinality(FeedSurvivors(m)) IN
            k >= 2 =>
                /\ HasKey(batch_grouped, m)
                /\ DictLookup(batch_grouped, m).order_count = Some(k)
                /\ DictLookup(batch_grouped, m).has_multiple_orders = Some(TRUE)

\* what the batch reports in every run: one order per identifier
C25_AlwaysSingle ==
    BatchGrouped =>
        \A k \in DOMAIN batch_grouped :
            /\ batch_grouped[k].data.order_count = Some(1)
            /\ batch_grouped[k].data.has_multiple_orders = Some(FALSE)

\* the most recent of the surviving orders of m, the first among equals
LatestSurvivor(m) ==
    CHOOSE i \in FeedSurvivors(m) :
        \A j \in FeedSurvivors(m) :
            /\ TimeOf(Feed[j].CreatedDate) <= TimeOf(Feed[i].CreatedDate)
            /\ (TimeOf(Feed[j].CreatedDate) = TimeOf(Feed[i].CreatedDate) => i <= j)

\* C26: every identifier with at least one order of the fetched feed that the
\* reason, type and disconnect rules do not exclude is validated by the batch,
\* and its grouped record is the most recent such order, also when the
\* identifier's most recent order overall is an excluded one
C26_LatestNonExcludedValidated ==
    bpc = "validated" =>
        \A m \in FeedIdentifiers :
            FeedSurvivors(m) # {} =>
                /\ m \in batch_requests
                /\ HasKey(batch_grouped, m)
                /\ [DictLookup(batch_grouped, m) EXCEPT !.has_multiple_orders = None,
                                                        !.order_count = None]
                       = Feed[LatestSurvivor(m)]

-----------------------------------------------------------------------------
(* AssetFetcher.get_assets_for_msisdn_v2 *)

\* an asset row of the record source; a reference the query templates
\* substitute may be null
AssetRow(id, asset_reference_id, root_item_id) ==
    [Id |-> id, AssetReferenceId__c |-> asset_reference_id, RootItemId__c |-> root_item_id]

\* the outcome of one lookup: whether its query reached the record source, and
\* what came back
LookupRaised(sent) == [raised |-> TRUE, sent |-> sent, value |-> None]
LookupReturned(value) == [raised |-> FALSE, sent |-> TRUE, value |-> value]

\* a lookup "n": w.replace("{placeholder}", value) raises on a null value when
\* the configured where_conditions are non-empty; self.sf.query_all raises
\* when the source fails on this lookup; "except Exception: raise"
Lookup(src, n, placeholder, value) ==
    IF src.templated /\ IsNone(placeholder) THEN LookupRaised(FALSE)
    ELSE IF src.fail_at = n THEN LookupRaised(TRUE)
    ELSE LookupReturned(value)

\* records[0] if records else None
get_latest_line(src) == Lookup(src, 1, Some("msisdn"), src.line)

get_device_for_line(src, asset_reference_id) ==
    Lookup(src, 2, asset_reference_id, src.device)

get_line_children(src, line_root_id) ==
    Lookup(src, 3, line_root_id, src.line_children)

get_device_children(src, device_root_id) ==
    Lookup(src, 4, device_root_id, src.device_children)

no_line_result ==
    [latest_line |-> None, device |-> None, line_children |-> <<>>,
     device_children |-> <<>>, error |-> Some("No active line found")]

\* (mutant) the partial bundle without its error state
device_missing_result_no_error(line) ==
    [latest_line |-> line, device |-> None, line_children |-> <<>>,
     device_children |-> <<>>, error |-> None]

device_missing_result(line) ==
    [latest_line |-> line, device |-> None, line_children |-> <<>>,
     device_children |-> <<>>, error |-> Some("No device found (mandatory)")]

\* (mutant) the device children are looked up only for a line with children
AfterLineChildren_skip_empty(line_children) ==
    IF line_children = <<>> THEN "return" ELSE "device_children"

\* Query 3 follows Query 2b whatever it returned
AfterLineChildren(line_children) == "device_children"

AssetSources ==
    [line : {None, Some(AssetRow("L1", Some("ref1"), Some("root1"))),
             Some(AssetRow("L1", None, Some("root1"))),
             Some(AssetRow("L1", Some("ref1"), None))},
     device : {None, Some(AssetRow("D1", Some("ref1"), Some("root2"))),
               Some(AssetRow("D1", Some("ref1"), None))},
     line_children : SeqsUpTo({AssetRow("C1", None, Some("root1"))}, MaxFetchedChildren),
     device_children : SeqsUpTo({AssetRow("C2", None, Some("root2"))}, MaxFetchedChildren),
     fail_at : 0..4,
     templated : BOOLEAN]

InitAssets ==
    /\ asset_source \in {Some(x) : x \in AssetSources}
    /\ lookups = <<>>
    /\ latest_line = None
    /\ found_device = None
    /\ found_children = <<>>
    /\ found_dchildren = <<>>
    /\ bundle = None
    /\ apc = "start"
    /\ CoreIdle
    /\ ServiceIdle
    /\ ListIdle
    /\ FilterIdle
    /\ FetchIdle
    /\ BulkIdle

Sent(o, name) == IF o.sent THEN Append(lookups, name) ELSE lookups

\* Query 1 and "if not latest_line"
GetLatestLine ==
    /\ apc = "start"
    /\ LET o == get_latest_line(Val(asset_source)) IN
       /\ lookups' = Sent(o, "line")
       /\ IF o.raised
             THEN apc' = "raised" /\ UNCHANGED <<latest_line, bundle>>
          ELSE IF IsNone(o.value)
             THEN /\ bundle' = Some(no_line_result)
                  /\ apc' = "returned"
                  /\ UNCHANGED latest_line
          ELSE /\ latest_line' = o.value
               /\ apc' = "device"
               /\ UNCHANGED bundle
    /\ UNCHANGED <<asset_source, found_device, found_children, found_dchildren>>
    /\ UNCHANGED <<coreVars, filterVars, fetchVars, bulkVars, serviceVars, listVars>>

\* Query 2 and "if not device"
GetDeviceForLine ==
    /\ apc = "device"
    /\ LET line_asset_ref == Val(latest_line).AssetReferenceId__c
           o == get_device_for_line(Val(asset_source), line_asset_ref) IN
       /\ lookups' = Sent(o, "device")
       /\ IF o.raised
             THEN apc' = "raised" /\ UNCHANGED <<found_device, bundle>>
          ELSE IF IsNone(o.value)
             THEN /\ bundle' = Some(device_missing_result(latest_line))
                  /\ apc' = "returned"
                  /\ UNCHANGED found_device
          ELSE /\ found_device' = o.value
               /\ apc' = "line_children"
               /\ UNCHANGED bundle
    /\ UNCHANGED <<asset_source, latest_line, found_children, found_dchildren>>
    /\ UNCHANGED <<coreVars, filterVars, fetchVars, bulkVars, serviceVars, listVars>>

\* Query 2b
GetLineChildren ==
    /\ apc = "line_children"
    /\ LET line_root_id == Val(latest_line).RootItemId__c
           o == get_line_children(Val(asset_source), line_root_id) IN
       /\ lookups' = Sent(o, "line_children")
       /\ IF o.raised
             THEN apc' = "raised" /\ UNCHANGED found_children
             ELSE /\ found_children' = o.value
                  /\ apc' = AfterLineChildren(o.value)
    /\ UNCHANGED <<asset_source, latest_line, found_device, found_dchildren, bundle>>
    /\ UNCHANGED <<coreVars, filterVars, fetchVars, bulkVars, serviceVars, listVars>>

\* Query 3
GetDeviceChildren ==
    /\ apc = "device_children"
    /\ LET device_root_id == Val(found_device).RootItemId__c
           o == get_device_children(Val(asset_source), device_root_id) IN
       /\ lookups' = Sent(o, "device_children")
       /\ IF o.raised
             THEN apc' = "raised" /\ UNCHANGED found_dchildren
             ELSE /\ found_dchildren' = o.value
                  /\ apc' = "return"
    /\ UNCHANGED <<asset_source, latest_line, found_device, found_children, bundle>>
    /\ UNCHANGED <<coreVars, filterVars, fetchVars, bulkVars, serviceVars, listVars>>

\* the return of the complete bundle
ReturnBundle ==
    /\ apc = "return"
    /\ bundle' = Some([latest_line |-> latest_line, device |-> found_device,
                       line_children |-> found_children,
                       device_children |-> found_dchildren, error |-> None])
    /\ apc' = "returned"
    /\ UNCHANGED <<asset_source, lookups, latest_line, found_device, found_children,
                   found_dchildren>>
    /\ UNCHANGED <<coreVars, filterVars, fetchVars, bulkVars, serviceVars, listVars>>

NextAssets ==
    GetLatestLine \/ GetDeviceForLine \/ GetLineChildren \/ GetDeviceChildren \/ ReturnBundle

SpecAssets == InitAssets /\ [][NextAssets]_vars

\* the line lookup returned a line and the device lookup returned nothing
LineFoundDeviceMissing ==
    /\ Len(lookups) >= 2
    /\ apc # "raised"
    /\ ~IsNone(Val(asset_source).line)
    /\ IsNone(Val(asset_source).device)

LookupOrder == <<"line", "device", "line_children", "device_children">>

\* C18: the lookups are issued in the order line, device, line children, device
\* children, each after the previous one returned; a call that returns has
\* issued exactly 1 lookup when no line exists (line = None, device = None,
\* children empty, error set), exactly 2 when the device is missing and exactly
\* 4 otherwise, also when the line children came back empty; in every returned
\* bundle a device is present only with a line, and error is None iff both are
C18_LookupSequence ==
    /\ lookups = SubSeq(LookupOrder, 1, Len(lookups))
    /\ apc = "returned" =>
          LET b == Val(bundle)
              src == Val(asset_source) IN
          /\ IsNone(src.line) =>
                /\ Len(lookups) = 1
                /\ IsNone(b.latest_line) /\ IsNone(b.device)
                /\ b.line_children = <<>> /\ b.device_children = <<>>
                /\ ~IsNone(b.error)
          /\ (~IsNone(src.line) /\ IsNone(src.device)) => Len(lookups) = 2
          /\ (~IsNone(src.line) /\ ~IsNone(src.device)) =>
                /\ Len(lookups) = 4
                /\ b.line_children = src.line_children
                /\ b.device_children = src.device_children
          /\ (~IsNone(b.device) => ~IsNone(b.latest_line))
          /\ (IsNone(b.error) <=> (~IsNone(b.latest_line) /\ ~IsNone(b.device)))

\* all four lookups although the line children came back empty
C18_Witness ==
    /\ apc = "returned"
    /\ Len(lookups) = 4
    /\ Val(bundle).line_children = <<>>
    /\ Val(bundle).device_children # <<>>
    /\ IsNone(Val(bundle).error)

C18_WitnessNoLine ==
    /\ apc = "returned"
    /\ Len(lookups) = 1
    /\ ~IsNone(Val(asset_source).device)
    /\ Val(bundle) = no_line_result

-----------------------------------------------------------------------------
(* BulkValidator._validate_msisdns_batch *)

DEFAULT_MAX_WORKERS == 5

\* bulk_config.get("max_concurrent_requests", 5)
PoolWidth(cfg) == IF IsNone(cfg) THEN DEFAULT_MAX_WORKERS ELSE Val(cfg)

\* what the validation endpoint answers for an identifier: the verdict
\* response of validate_msisdn ...
ResponseJson(msisdn) == [status |-> "success", msisdn |-> msisdn]

\* ... or its {"status": "error", "message": ...}; validate_order sends both
\* with HTTP status 200
ErrorJson(msisdn) == [status |-> "error", msisdn |-> msisdn]

\* how a request ends: a 200 response with a verdict, a 200 response with an
\* error body, another status, a requests exception (timeout, connection
\* error), any other exception
RequestOutcomes == {"200", "200 error", "500", "timeout", "exception"}

\* (mutant) validate_single_msisdn without its except clauses
SingleResult_unguarded(msisdn, outcome) ==
    IF outcome = "200"
        THEN [raised |-> FALSE, msisdn |-> msisdn, error |-> None,
              response |-> Some(ResponseJson(msisdn))]
    ELSE IF outcome = "200 error"
        THEN [raised |-> FALSE, msisdn |-> msisdn, error |-> None,
              response |-> Some(ErrorJson(msisdn))]
    ELSE IF outcome = "500"
        THEN [raised |-> FALSE, msisdn |-> msisdn, error |-> Some("HTTP 500"), response |-> None]
    ELSE [raised |-> TRUE, msisdn |-> msisdn, error |-> None, response |-> None]

\* the tuple validate_single_msisdn returns
SingleResult(msisdn, outcome) ==
    IF outcome = "200"
        THEN [raised |-> FALSE, msisdn |-> msisdn, error |-> None,
              response |-> Some(ResponseJson(msisdn))]
    ELSE IF outcome = "200 error"
        THEN [raised |-> FALSE, msisdn |-> msisdn, error |-> None,
              response |-> Some(ErrorJson(msisdn))]
    ELSE IF outcome = "500"
        THEN [raised |-> FALSE, msisdn |-> msisdn, error |-> Some("HTTP 500"), response |-> None]
    ELSE IF outcome = "timeout"
        THEN [raised |-> FALSE, msisdn |-> msisdn, error |-> Some("Request failed"),
              response |-> None]
    ELSE [raised |-> FALSE, msisdn |-> msisdn, error |-> Some("Validation failed"),
          response |-> None]

\* calls a worker thread is running
Running == {i \in DOMAIN tasks : tasks[i].st \in {"sleeping", "posting"}}
InFlight == {i \in DOMAIN tasks : tasks[i].st = "posting"}

\* (mutant) a thread for every submitted call
WorkerFree_unbounded(running, width) == TRUE

\* ThreadPoolExecutor(max_workers): at most max_workers worker threads
WorkerFree(running, width) == running < width

\* the identifiers of a run are the keys of a dict: distinct
AllMsisdns == <<"m1", "m2", "m3", "m4", "m5">>
MsisdnLists == {SubSeq(AllMsisdns, 1, n) : n \in 0..MaxMsisdns}

\* configured pool widths (positive, as ThreadPoolExecutor requires), or none
PoolWidths == {None, Some(1), Some(2)}

\* the order filter_and_group keeps for an identifier, flags included
GroupedOrder(msisdn) ==
    [Order(Some(msisdn),
           IF msisdn = "m2" THEN None ELSE Some(R_Upgrade),
           Some("Change"),
           IF msisdn = "m3" THEN T09 ELSE T10)
        EXCEPT !.has_multiple_orders = Some(msisdn = "m1"),
               !.order_count = Some(IF msisdn = "m1" THEN 2 ELSE 1)]

GroupedMaps ==
    {[i \in DOMAIN ms |-> [key |-> ms[i], data |-> GroupedOrder(ms[i])]] : ms \in MsisdnLists}

\* bulk_validation.output_format as configured
OutputFormats == {<<"j", "s", "o", "n">>, <<"c", "s", "v">>, <<"C", "S", "V">>}
CSV == <<"c", "s", "v">>

\* datetime.now()
Clock == {T09, T10}

\* validation_results.get(msisdn, {}): an entry, or the empty dict
EmptyResult == [error |-> None, response |-> None]

\* r.get("status") of an entry of validation_results
ResultStatus(r) == IF IsNone(r.response) THEN None ELSE Some(Val(r.response).status)

\* (mutant) the percentage rounded to a whole number
Round2Percent_whole(num, den) == (200 * num + den) \div (2 * den)

\* round(x, 2) of the percentage num / den * 100, in hundredths of a percent
Round2Percent(num, den) == (20000 * num + den) \div (2 * den)

\* the CSV header of the yesterday-batch report
BatchCsvHeader ==
    <<"MSISDN", "Order Reason", "Order Status", "Validation Status",
      "Has Multiple Orders", "Order Count", "Success Rate", "Errors">>

\* str(bool)
StrBool(b) == IF b THEN "True" ELSE "False"

\* one row of _convert_to_csv; the rate cell stands for f"{success_rate}%" of
\* the verdict's summary, the errors cell for the message of an error body
CsvRow(msisdn, data) ==
    LET validation_status ==
            IF IsNone(ResultStatus(data.validation_result)) THEN "unknown"
            ELSE Val(ResultStatus(data.validation_result)) IN
    <<msisdn, data.order_reason, data.order_status, validation_status,
      StrBool(data.has_multiple_orders), data.order_count,
      IF validation_status = "success" THEN "<success_rate>%" ELSE "N/A",
      IF validation_status = "error" THEN "<message>" ELSE "">>

convert_to_csv(summary, detailed_results) ==
    [summary |-> summary,
     format |-> Some("csv"),
     results |-> None,
     csv_data |-> Some(<<BatchCsvHeader>>
                       \o [k \in DOMAIN detailed_results |->
                              CsvRow(detailed_results[k].key, detailed_results[k].data)])]

\* the summary of _format_results
Summary(g, results, output_format, now) ==
    LET total_msisdns == Len(g)
        successful_validations ==
            Cardinality({k \in DOMAIN results : ResultStatus(results[k].data) # Some("error")})
        failed_validations == total_msisdns - successful_validations IN
    [total_msisdns |-> total_msisdns,
     successful_validations |-> successful_validations,
     failed_validations |-> failed_validations,
     success_rate |-> IF total_msisdns > 0
                          THEN Round2Percent(successful_validations, total_msisdns)
                          ELSE 0,
     timestamp |-> now,
     output_format |-> output_format]

\* (mutant) the entries follow the results map, which is in completion order
DetailedResults_by_completion(g, results) ==
    [k \in DOMAIN results |->
        LET msisdn == results[k].key
            order_data == DictLookup(g, msisdn) IN
        [key |-> msisdn,
         data |-> [order_data |-> order_data,
                   validation_result |-> results[k].data,
                   order_reason |-> order_data.Reason__c,
                   order_status |-> None,
                   has_multiple_orders |-> IF IsNone(order_data.has_multiple_orders) THEN FALSE
                                           ELSE Val(order_data.has_multiple_orders),
                   order_count |-> IF IsNone(order_data.order_count) THEN 1
                                   ELSE Val(order_data.order_count)]]]

\* "for msisdn, order_data in grouped_orders.items()"
DetailedResults(g, results) ==
    [k \in DOMAIN g |->
        LET msisdn == g[k].key
            order_data == g[k].data IN
        [key |-> msisdn,
         data |-> [order_data |-> order_data,
                   validation_result |-> IF HasKey(results, msisdn)
                                             THEN DictLookup(results, msisdn)
                                             ELSE EmptyResult,
                   order_reason |-> order_data.Reason__c,
                   order_status |-> None,
                   has_multiple_orders |-> IF IsNone(order_data.has_multiple_orders) THEN FALSE
                                           ELSE Val(order_data.has_multiple_orders),
                   order_count |-> IF IsNone(order_data.order_count) THEN 1
                                   ELSE Val(order_data.order_count)]]]

format_results(g, results, output_format, now) ==
    LET summary == Summary(g, results, output_format, now)
        detailed_results == DetailedResults(g, results) IN
    IF Lower(output_format) = CSV
        THEN convert_to_csv(summary, detailed_results)
        ELSE [summary |-> summary, format |-> None, results |-> Some(detailed_results),
              csv_data |-> None]

InitBulk ==
    /\ grouped_orders \in GroupedMaps
    /\ msisdns = DictKeys(grouped_orders)
    /\ report = None
    /\ max_workers \in PoolWidths
    /\ tasks = <<>>
    /\ batch_results = <<>>
    /\ writes = <<>>
    /\ kpc = "start"
    /\ CoreIdle
    /\ ServiceIdle
    /\ ListIdle
    /\ FilterIdle
    /\ FetchIdle
    /\ AssemblerIdle

\* executor.submit(validate_single_msisdn, msisdn) for msisdn in msisdns
SubmitAll ==
    /\ kpc = "start"
    /\ tasks' = [i \in DOMAIN msisdns |->
                    [msisdn |-> msisdns[i], st |-> "queued", paused |-> FALSE, result |-> None]]
    /\ writes' = [i \in DOMAIN msisdns |-> 0]
    /\ kpc' = "collecting"
    /\ UNCHANGED <<msisdns, max_workers, batch_results, grouped_orders, report>>
    /\ UNCHANGED <<coreVars, filterVars, fetchVars, assemblerVars, serviceVars, listVars>>

\* a free worker thread takes the oldest queued call and starts its pause
StartTask(i) ==
    /\ i \in DOMAIN tasks
    /\ tasks[i].st = "queued"
    /\ \A j \in 1..(i - 1) : tasks[j].st # "queued"
    /\ WorkerFree(Cardinality(Running), PoolWidth(max_workers))
    /\ tasks' = [tasks EXCEPT ![i].st = "sleeping"]
    /\ UNCHANGED <<msisdns, max_workers, batch_results, writes, kpc, grouped_orders, report>>
    /\ UNCHANGED <<coreVars, filterVars, fetchVars, assemblerVars, serviceVars, listVars>>

\* time.sleep(delay_between_requests) is over: requests.post(...) is sent
SendRequest(i) ==
    /\ i \in DOMAIN tasks
    /\ tasks[i].st = "sleeping"
    /\ tasks' = [tasks EXCEPT ![i].st = "posting", ![i].paused = TRUE]
    /\ UNCHANGED <<msisdns, max_workers, batch_results, writes, kpc, grouped_orders, report>>
    /\ UNCHANGED <<coreVars, filterVars, fetchVars, assemblerVars, serviceVars, listVars>>

\* the request ends (by timeout=30 at the latest) and the call returns
FinishRequest(i) ==
    /\ i \in DOMAIN tasks
    /\ tasks[i].st = "posting"
    /\ \E outcome \in RequestOutcomes :
          tasks' = [tasks EXCEPT ![i].st = "finished",
                                 ![i].result = Some(SingleResult(tasks[i].msisdn, outcome))]
    /\ UNCHANGED <<msisdns, max_workers, batch_results, writes, kpc, grouped_orders, report>>
    /\ UNCHANGED <<coreVars, filterVars, fetchVars, assemblerVars, serviceVars, listVars>>

\* for future in as_completed(...): msisdn, result = future.result();
\* results[msisdn] = result
Collect(i) ==
    /\ kpc = "collecting"
    /\ i \in DOMAIN tasks
    /\ tasks[i].st = "finished"
    /\ LET r == Val(tasks[i].result) IN
       IF r.raised
           THEN /\ kpc' = "raised"
                /\ UNCHANGED <<batch_results, writes>>
           ELSE /\ batch_results' = DictSet(batch_results, r.msisdn,
                                            [error |-> r.error, response |-> r.response])
                /\ writes' = [writes EXCEPT ![i] = @ + 1]
                /\ UNCHANGED kpc
    /\ tasks' = [tasks EXCEPT ![i].st = "collected"]
    /\ UNCHANGED <<msisdns, max_workers, grouped_orders, report>>
    /\ UNCHANGED <<coreVars, filterVars, fetchVars, assemblerVars, serviceVars, listVars>>

\* every future was yielded: the with block ends, return results
ReturnResults ==
    /\ kpc = "collecting"
    /\ \A i \in DOMAIN tasks : tasks[i].st = "collected"
    /\ kpc' = "returned"
    /\ UNCHANGED <<msisdns, max_workers, tasks, batch_results, writes, grouped_orders, report>>
    /\ UNCHANGED <<coreVars, filterVars, fetchVars, assemblerVars, serviceVars, listVars>>

\* Step 4: output_format = config...get("output_format", "json");
\* results = self._format_results(grouped_orders, validation_results, output_format)
FormatResults ==
    /\ kpc = "returned"
    /\ \E output_format \in OutputFormats, now \in Clock :
          report' = Some(format_results(grouped_orders, batch_results, output_format, now))
    /\ kpc' = "formatted"
    /\ UNCHANGED <<msisdns, max_workers, tasks, batch_results, writes, grouped_orders>>
    /\ UNCHANGED <<coreVars, filterVars, fetchVars, assemblerVars, serviceVars, listVars>>

NextBulk ==
    \/ SubmitAll
    \/ \E i \in 1..MaxMsisdns : StartTask(i)
    \/ \E i \in 1..MaxMsisdns : SendRequest(i)
    \/ \E i \in 1..MaxMsisdns : FinishRequest(i)
    \/ \E i \in 1..MaxMsisdns : Collect(i)
    \/ ReturnResults
    \/ FormatResults

SpecBulk == InitBulk /\ [][NextBulk]_vars

\* worker threads and the calling thread keep being scheduled, and every
\* request ends
SpecBulkLive == SpecBulk /\ WF_vars(NextBulk)

\* C19: at every moment the number of validation requests in flight is at most
\* max_concurrent_requests (5 when not configured), for any number of
\* identifiers, and a worker has made its pause before it sends its request
C19_BoundedConcurrency ==
    /\ Cardinality(InFlight) <= PoolWidth(max_workers)
    /\ \A i \in DOMAIN tasks :
          tasks[i].st \in {"posting", "finished", "collected"} => tasks[i].paused

\* the pool is full while a call waits in the queue
C19_Witness ==
    /\ max_workers = Some(2)
    /\ Cardinality(InFlight) = 2
    /\ \E i \in DOMAIN tasks : tasks[i].st = "queued"

IsErrorShaped(entry) == ~IsNone(entry.error) /\ IsNone(entry.response)

BatchComplete ==
    /\ Len(batch_results) = Len(msisdns)
    /\ \A i \in DOMAIN msisdns :
          /\ HasKey(batch_results, msisdns[i])
          /\ writes[i] = 1
          /\ LET entry == DictLookup(batch_results, msisdns[i])
                 r == Val(tasks[i].result) IN
             /\ entry = [error |-> r.error, response |-> r.response]
             /\ \/ IsErrorShaped(entry)
                \/ entry.response \in {Some(ResponseJson(msisdns[i])), Some(ErrorJson(msisdns[i]))}

\* C20: for every interleaving of the workers and every pattern of outcomes
\* (200, non-200, timeout, other exception) the batch terminates with a results
\* map that has exactly one entry per input identifier, written once: an
\* error-shaped entry for a failed identifier, and for every other identifier
\* the response of its own call
C20_BatchCompletes ==
    /\ [](kpc # "raised")
    /\ [](\A i \in DOMAIN writes : writes[i] <= 1)
    /\ [](kpc = "returned" => BatchComplete)
    /\ <>(kpc = "returned")

\* a failed call between two successful ones
C20_Witness ==
    /\ kpc = "returned"
    /\ Len(msisdns) = 3
    /\ max_workers = Some(2)
    /\ DictLookup(batch_results, "m1").response = Some(ResponseJson("m1"))
    /\ DictLookup(batch_results, "m2").error = Some("Request failed")
    /\ DictLookup(batch_results, "m3").response = Some(ResponseJson("m3"))
    /\ batch_results[1].key = "m3"

-----------------------------------------------------------------------------
(* The batch report of BulkValidator._format_results *)

Formatted == kpc = "formatted"
BatchSummary == Val(report).summary

\* the call of task i ended in a 200 response
TransportOk(i) == ~IsNone(Val(tasks[i].result).response)
\* ... whose body is a verdict
VerdictReceived(i) == Val(tasks[i].result).response = Some(ResponseJson(tasks[i].msisdn))

\* 100.0 and 0 in hundredths of a percent
SummaryCountsAddUp ==
    /\ BatchSummary.successful_validations + BatchSummary.failed_validations
          = BatchSummary.total_msisdns
    /\ BatchSummary.total_msisdns = Len(msisdns)
    /\ 0 <= BatchSummary.success_rate /\ BatchSummary.success_rate <= 10000
    /\ Len(msisdns) = 0 => BatchSummary.success_rate = 0

\* C21 as stated: for N >= 1 identifiers whose transport calls all succeed the
\* batch summary has success_rate = 100.0; for 0 identifiers it is 0; the two
\* counts add up to total_msisdns and the rate lies between 0 and 100
C21_RateOfTransportSuccess ==
    Formatted =>
        /\ (Len(msisdns) >= 1 /\ \A i \in DOMAIN tasks : TransportOk(i))
              => BatchSummary.success_rate = 10000
        /\ SummaryCountsAddUp

\* C21 (amended): for N >= 1 identifiers whose transport calls all succeed with
\* a verdict body (none with a {status: error} body) the batch summary has
\* success_rate = 100.0; for 0 identifiers it is 0; the two counts add up to
\* total_msisdns and the rate lies between 0 and 100
C21_RateOfVerdicts ==
    Formatted =>
        /\ (Len(msisdns) >= 1 /\ \A i \in DOMAIN tasks : VerdictReceived(i))
              => BatchSummary.success_rate = 10000
        /\ SummaryCountsAddUp

\* three identifiers, three verdicts
C21_Witness ==
    /\ Formatted
    /\ Len(msisdns) = 3
    /\ \A i \in DOMAIN tasks : VerdictReceived(i)
    /\ BatchSummary.success_rate = 10000
    /\ BatchSummary.successful_validations = 3

\* the calls that ended in a non-200 response, a timeout or another exception
TransportFailures == {i \in DOMAIN tasks : ~TransportOk(i)}

\* C22: every identifier whose transport call ends in a non-success response,
\* a timeout or another request exception is recorded as an entry with status
\* "error" and is counted in failed_validations, not in successful_validations
C22_TransportFailuresCounted ==
    Formatted =>
        /\ \A i \in TransportFailures :
              ResultStatus(DictLookup(batch_results, tasks[i].msisdn)) = Some("error")
        /\ BatchSummary.failed_validations >= Cardinality(TransportFailures)
        /\ BatchSummary.successful_validations
              <= Cardinality(DOMAIN tasks \ TransportFailures)

\* the results of the calls in submission order, whatever order they completed in
ResultsAsSubmitted ==
    [i \in DOMAIN tasks |->
        [key |-> tasks[i].msisdn,
         data |-> [error |-> Val(tasks[i].result).error,
                   response |-> Val(tasks[i].result).response]]]

\* the entries of the report: of the results map, or the rows after the header
ReportKeys ==
    IF IsNone(Val(report).format) THEN DictKeys(Val(Val(report).results))
    ELSE [k \in 1..(Len(Val(Val(report).csv_data)) - 1) |-> Val(Val(report).csv_data)[k + 1][1]]

\* C30: the batch report (summary counts and per-identifier entries with their
\* order) is the same for every completion order of the workers: it is the
\* report of the calls' results taken in submission order; its entries follow
\* the order of the grouped-orders map, and each entry pairs an identifier's
\* order data with that same identifier's validation result
C30_ReportIgnoresCompletionOrder ==
    Formatted =>
        /\ Val(report) = format_results(grouped_orders, ResultsAsSubmitted,
                                        BatchSummary.output_format, BatchSummary.timestamp)
        /\ ReportKeys = DictKeys(grouped_orders)
        /\ IsNone(Val(report).format) =>
              \A k \in DOMAIN grouped_orders :
                  LET entry == Val(Val(report).results)[k].data IN
                  /\ entry.order_data = grouped_orders[k].data
                  /\ entry.order_data.PR_MSISDN__c = Some(tasks[k].msisdn)
                  /\ entry.validation_result = ResultsAsSubmitted[k].data

\* the last identifier completed first and the first one failed
C30_Witness ==
    /\ Formatted
    /\ Len(msisdns) = 3
    /\ batch_results[1].key = "m3"
    /\ batch_results[3].key = "m1"
    /\ ~TransportOk(1)
    /\ VerdictReceived(3)
    /\ IsNone(Val(report).format)
    /\ DictKeys(Val(Val(report).results)) = <<"m1", "m2", "m3">>

-----------------------------------------------------------------------------
(* ValidatorService.validate_msisdn (src/main.py) *)

\* a raw asset record as the record source returns it
RawAsset(code, status, one_time, recurring) ==
    [Id |-> Some("a1"), ProductCode |-> code, ProvisioningStatus__c |-> status,
     OneTimeCharge__c |-> one_time, RecurringCharge__c |-> recurring]

\* (mutant) the charge handed over as fetched
OrZero_as_fetched(value) == value

\* asset.get(...) or 0.0: a null and a zero charge both become 0.0
OrZero(value) == IF IsNone(value) \/ Val(value) = 0 THEN Some(0) ELSE value

\* _normalize_asset; "if not asset: return None"
normalize_asset(asset) ==
    IF IsNone(asset) THEN None
    ELSE Some(Asset(Val(asset).ProductCode, Val(asset).ProvisioningStatus__c,
                    [kind |-> "dict",
                     one_time |-> OrZero(Val(asset).OneTimeCharge__c),
                     recurring |-> OrZero(Val(asset).RecurringCharge__c)]))

\* [self._normalize_asset(a) for a in assets if a]
normalize_assets_list(raw_assets) ==
    [i \in DOMAIN raw_assets |-> Val(normalize_asset(Some(raw_assets[i])))]

\* an OrderItem record of the order history; its Order relationship may be null
HistoryRecord(order) == [Order |-> order]
HistoryOrder(reason) == Some([Reason__c |-> reason])

\* get_order_history returns the list of records (and [] when the lookup fails)
OrderHistory(records) == [kind |-> "list", records |-> records]

\* the first occurrences of the truthy values of a list
RECURSIVE DistinctTruthy(_, _, _)
DistinctTruthy(values, idx, acc) ==
    IF idx > Len(values) THEN acc
    ELSE IF Truthy(values[idx]) /\ ~InList(values[idx], acc)
        THEN DistinctTruthy(values, idx + 1, Append(acc, values[idx]))
    ELSE DistinctTruthy(values, idx + 1, acc)

\* "if order_history and isinstance(order_history, dict)": the reasons are
\* read from order_history["orders"][i]["reason"] of a dict only
ExtractReasons(order_history) ==
    IF order_history.kind = "dict" /\ order_history.records # <<>>
        THEN DistinctTruthy([i \in DOMAIN order_history.orders |->
                                order_history.orders[i].reason], 1, <<>>)
        ELSE <<>>

\* validate_for_msisdn, step 2: "for reason in order_reasons"
RECURSIVE ReasonsLoop(_, _, _, _, _), ReasonsNext(_, _, _, _, _, _)
ReasonsLoop(cfg, a, reasons, idx, results) ==
    IF idx > Len(reasons) THEN Ret(results)
    ELSE IF ~Truthy(reasons[idx]) THEN ReasonsLoop(cfg, a, reasons, idx + 1, results)
    ELSE ReasonsNext(cfg, a, reasons, idx, results,
                     run_reason_checks(cfg, Val(reasons[idx]), a, <<>>))

\* reason_results[reason] = r, unless _run_reason_checks raised
ReasonsNext(cfg, a, reasons, idx, results, r) ==
    IF r.raised THEN Raise
    ELSE ReasonsLoop(cfg, a, reasons, idx + 1, DictSet(results, Val(reasons[idx]), r.value))

\* "results = {basic: basic_results, reason_based: reason_results}", unless a
\* step raised
EngineResults(b, rr) ==
    IF b.raised \/ rr.raised THEN Raise
    ELSE Ret([basic |-> b.value, reason_based |-> rr.value])

\* validate_for_msisdn as one call; basic_config.get raises when the "basic"
\* entry of the configuration is not a mapping
validate_for_msisdn(cfg, a, reasons) ==
    IF ~cfg.basic_is_mapping THEN Raise
    ELSE EngineResults(run_basic_checks(cfg, a, <<>>), ReasonsLoop(cfg, a, reasons, 1, <<>>))

\* "if order_reasons is None: order_reasons = [order_type] if order_type else []"
validate_for_order_type(cfg, order_type, a, reasons) ==
    validate_for_msisdn(cfg, a,
                        IF IsNone(reasons)
                            THEN (IF order_type # "" THEN <<Some(order_type)>> ELSE <<>>)
                            ELSE Val(reasons))

\* a warning as the response builder reads it (a mapping with modified_by), and
\* a message string as add_warning is declared to take
DictWarning == [mapping |-> TRUE, modified_by |-> "user1"]
StrWarning == [mapping |-> FALSE, modified_by |-> ""]

\* ResponseBuilder._extract_order_info: order = order_item.get("Order", {});
\* order.get(...) raises on a null Order; "return order_reasons[:3], ..."
extract_order_info(records) ==
    IF \E i \in DOMAIN records : IsNone(records[i].Order) THEN Raise
    ELSE LET all == DistinctTruthy([i \in DOMAIN records |-> Val(records[i].Order).Reason__c],
                                   1, <<>>) IN
         Ret(SubSeq(all, 1, IF Len(all) < 3 THEN Len(all) ELSE 3))

\* ResponseBuilder.build_response for the one identifier of validate_msisdn;
\* [w.get("modified_by") for w in warnings] raises on a warning that is a string
build_response(vd) ==
    LET info == extract_order_info(vd.order_history.records) IN
    IF info.raised THEN Raise
    ELSE IF \E i \in DOMAIN vd.warnings : ~vd.warnings[i].mapping THEN Raise
    ELSE Ret([status |-> "success",
              message |-> None,
              verdict |-> Some(build_msisdn_response(vd)),
              validations |-> Some(vd.validations),
              order_reasons |-> info.value,
              warnings |-> vd.warnings])

\* {"status": "error", "message": ...}
ErrorResponse(message) ==
    [status |-> "error", message |-> Some(message), verdict |-> None, validations |-> None,
     order_reasons |-> <<>>, warnings |-> <<>>]

\* how a call of validate_msisdn ends, and what it did on the way
ServiceOutcome(raised, resp, history_fetched, engine_input) ==
    [raised |-> raised, response |-> resp, history_fetched |-> history_fetched,
     engine_input |-> engine_input]

\* "response = ResponseBuilder.build_response(validation_data); return response"
ReturnResponse(built, engine_input) ==
    IF built.raised THEN ServiceOutcome(TRUE, None, TRUE, engine_input)
    ELSE ServiceOutcome(FALSE, Some(built.value), TRUE, engine_input)

\* from the engine's return on: validation_data is assembled with
\* validation_engine.get_warnings() and handed to the response builder
AssembleResponse(validation_checks, warnings, order_history, engine_input) ==
    IF validation_checks.raised THEN ServiceOutcome(TRUE, None, TRUE, engine_input)
    ELSE ReturnResponse(build_response([validations |-> validation_checks.value,
                                        warnings |-> warnings,
                                        order_history |-> order_history]),
                        engine_input)

\* the engine is called with the normalized assets and the extracted reasons
RunEngine(cfg, warnings, order_history, assets_for_validation, reasons) ==
    AssembleResponse(validate_for_order_type(cfg, "Change Plan", assets_for_validation,
                                             Some(reasons)),
                     warnings, order_history,
                     Some([assets |-> assets_for_validation, order_reasons |-> reasons]))

\* from get_order_history on: reasons extracted, assets normalized
ValidateFound(cfg, warnings, assets_data, order_history) ==
    RunEngine(cfg, warnings, order_history,
              [line |-> normalize_asset(assets_data.latest_line),
               device |-> normalize_asset(assets_data.device),
               line_children |-> normalize_assets_list(assets_data.line_children),
               device_children |-> normalize_assets_list(assets_data.device_children)],
              ExtractReasons(order_history))

\* the try block of validate_msisdn
validate_msisdn_body(cfg, warnings, req) ==
    IF req.lookup.raised THEN ServiceOutcome(TRUE, None, FALSE, None)
    ELSE IF ~IsNone(req.lookup.value.error)
        THEN ServiceOutcome(FALSE, Some(ErrorResponse(Val(req.lookup.value.error))), FALSE,
                            None)
    ELSE ValidateFound(cfg, warnings, req.lookup.value, OrderHistory(req.history))

\* the except clause: "return {status: error, message: str(e)}"
ExceptException(o) ==
    IF o.raised
        THEN ServiceOutcome(FALSE, Some(ErrorResponse("exception")), o.history_fetched,
                            o.engine_input)
        ELSE o

\* (mutant) validate_msisdn without its except clause
validate_msisdn_unguarded(cfg, warnings, req) == validate_msisdn_body(cfg, warnings, req)

\* validate_msisdn: the try block under "except Exception as e"
validate_msisdn(cfg, warnings, req) == ExceptException(validate_msisdn_body(cfg, warnings, req))

\* limit = query_config.get("limit", 3) of the order-history query
HISTORY_LIMIT == 3

DeviceCharges(allow_zero) ==
    Descriptor("chk6", "charges", "validate_device_charges", allow_zero, None, VNone)

\* the configuration the service's engine loaded: a device-charges check in
\* the basic set (allow_zero absent or false), "Change Plan" with or without
\* a check set; or a configuration whose "basic" entry is not a mapping
ServiceConfigs ==
    {[basic_is_mapping |-> TRUE,
      basic |-> Some(<<DeviceCharges(az)>>),
      reason_based |-> [r \in ConfigReasons |-> IF r = "Change Plan" THEN cp ELSE None]] :
        az \in {None, Some(FALSE)}, cp \in {None, Some(<<LineStatus>>)}}
    \cup {[basic_is_mapping |-> FALSE, basic |-> None,
           reason_based |-> [r \in ConfigReasons |-> None]]}

\* raw charge pairs: both null, one null, both zero, a positive amount
RawChargePairs ==
    {<<None, None>>, <<None, Some(5)>>, <<Some(0), None>>, <<Some(0), Some(0)>>,
     <<Some(5), Some(0)>>}
RawLine == RawAsset("ML-UNLIM", Some("Active"), Some(5), Some(0))
RawSim == RawAsset(SIM_CODE, Some("Active"), None, Some(0))

\* what get_assets_for_msisdn_v2 ends with: an exception, a not-found result,
\* or a complete bundle of raw records
ServiceLookups ==
    {[raised |-> TRUE, value |-> no_line_result],
     [raised |-> FALSE, value |-> no_line_result],
     [raised |-> FALSE, value |-> device_missing_result(Some(RawLine))]}
    \cup {[raised |-> FALSE,
           value |-> [latest_line |-> Some(RawLine),
                      device |-> Some(RawAsset("DEV-1", Some("Active"), c[1], c[2])),
                      line_children |-> <<RawSim>>,
                      device_children |-> <<>>,
                      error |-> None]] : c \in RawChargePairs}

HistoryRecords ==
    {HistoryRecord(None)}
    \cup {HistoryRecord(HistoryOrder(r)) :
            r \in {None, Some("Change Plan"), Some("SIM Replacement")}}

ServiceRequests ==
    [lookup : ServiceLookups,
     history : SeqsUpTo(HistoryRecords,
                        IF MaxHistory < HISTORY_LIMIT THEN MaxHistory ELSE HISTORY_LIMIT)]

\* ValidatorService.__init__: one engine for all calls, nothing recorded yet
InitService ==
    /\ engine_cfg \in {Some(c) : c \in ServiceConfigs}
    /\ accumulator = <<>>
    /\ request = None
    /\ svc_outcome = None
    /\ spc = "ready"
    /\ CoreIdle
    /\ FilterIdle
    /\ FetchIdle
    /\ AssemblerIdle
    /\ BulkIdle
    /\ ListIdle

\* a request for an identifier arrives (validate_order, validate_by_path)
BeginCall ==
    /\ spc = "ready"
    /\ request' \in {Some(r) : r \in ServiceRequests}
    /\ spc' = "called"
    /\ UNCHANGED <<engine_cfg, accumulator, svc_outcome>>
    /\ UNCHANGED <<coreVars, filterVars, fetchVars, assemblerVars, bulkVars, listVars>>

\* validate_msisdn from its first line to its return; no line of it calls
\* clear_messages or add_warning
ValidateMsisdn ==
    /\ spc = "called"
    /\ svc_outcome' = Some(validate_msisdn(Val(engine_cfg), accumulator, Val(request)))
    /\ spc' = "returned"
    /\ UNCHANGED <<engine_cfg, accumulator, request>>
    /\ UNCHANGED <<coreVars, filterVars, fetchVars, assemblerVars, bulkVars, listVars>>

\* validate_order: "return jsonify(response), 200"; the service is ready for
\* the next identifier
Respond ==
    /\ spc = "returned"
    /\ request' = None
    /\ svc_outcome' = None
    /\ spc' = "ready"
    /\ UNCHANGED <<engine_cfg, accumulator>>
    /\ UNCHANGED <<coreVars, filterVars, fetchVars, assemblerVars, bulkVars, listVars>>

\* ValidationEngine.add_warning on the service's engine, between two calls
AddWarning ==
    /\ spc = "ready"
    /\ Len(accumulator) < MaxWarnings
    /\ \E w \in {DictWarning, StrWarning} : accumulator' = Append(accumulator, w)
    /\ UNCHANGED <<engine_cfg, request, svc_outcome, spc>>
    /\ UNCHANGED <<coreVars, filterVars, fetchVars, assemblerVars, bulkVars, listVars>>

\* ValidationEngine.clear_messages on the service's engine, between two calls
ClearMessages ==
    /\ spc = "ready"
    /\ accumulator # <<>>
    /\ accumulator' = <<>>
    /\ UNCHANGED <<engine_cfg, request, svc_outcome, spc>>
    /\ UNCHANGED <<coreVars, filterVars, fetchVars, assemblerVars, bulkVars, listVars>>

NextService == BeginCall \/ ValidateMsisdn \/ Respond \/ AddWarning \/ ClearMessages

SpecService == InitService /\ [][NextService]_vars

-----------------------------------------------------------------------------
(* ValidatorService.validate_bulk_msisdns (src/main.py) *)

\* a record of "SELECT PR_MSISDN__c, Order.Id FROM OrderItem WHERE PR_MSISDN__c
\* IN (...)": no reason, type or creation time is selected
ListRecord(msisdn) == Order(Some(msisdn), None, None, <<>>)

\* the argument of a call: identifiers without repetition
RequestedLists ==
    {ms \in SeqsUpTo({"m1", "m2", "m3"}, MaxMsisdns) :
        \A i, j \in DOMAIN ms : ms[i] = ms[j] => i = j}

\* what the record source answers for the requested identifiers: one record
\* for each identifier of a subset, a second record for "m1"
ListFeeds(ms) ==
    {SelectSeq([i \in DOMAIN ms |-> ListRecord(ms[i])],
               LAMBDA o : Val(o.PR_MSISDN__c) \in found)
        \o (IF again /\ "m1" \in found THEN <<ListRecord("m1")>> ELSE <<>>) :
        found \in SUBSET {ms[i] : i \in DOMAIN ms}, again \in BOOLEAN}

ListConfigs == [output_format : OutputFormats, order_filter : FilterConfigs]

\* the dict validate_bulk_msisdns returns; a key that is absent is None
ListResponse(status, message, summary, results, csv_data) ==
    [status |-> status, message |-> message, summary |-> summary, results |-> results,
     csv_data |-> csv_data]

\* "if not orders_list: return {...}"
NoOrdersResponse(ms) ==
    ListResponse(Some("success"), Some("No orders found for the provided MSISDNs"),
                 Some([total_msisdns |-> Len(ms), orders_found |-> 0, success_rate |-> 0]),
                 Some(<<>>), None)

\* the header of ValidatorService._convert_to_csv
ListCsvHeader ==
    <<"MSISDN", "Validation Status", "Success Rate", "Errors", "Order Reason", "Asset Count">>

ListSummary(requested_msisdns, validated_msisdns, results, now) ==
    LET successful == Cardinality({k \in DOMAIN results : results[k].data.status = "success"})
        n == Len(validated_msisdns) IN
    [total_msisdns_requested |-> Len(requested_msisdns),
     msisdns_with_orders |-> n,
     msisdns_without_orders |-> Len(requested_msisdns) - n,
     successful_validations |-> successful,
     failed_validations |-> n - successful,
     success_rate |-> IF n > 0 THEN Round2Percent(successful, n) ELSE 0,
     timestamp |-> now]

\* _format_bulk_msisdn_response: with csv it calls
\* self._convert_bulk_msisdn_to_csv, an attribute ValidatorService does not
\* have (AttributeError)
format_bulk_msisdn_response(requested_msisdns, validated_msisdns, results, output_format, now) ==
    LET summary == ListSummary(requested_msisdns, validated_msisdns, results, now) IN
    IF Lower(output_format) = CSV THEN Raise
    ELSE Ret(ListResponse(None, None, Some(summary), Some(results), None))

InitList ==
    /\ requested \in RequestedLists
    /\ list_config \in {Some(c) : c \in ListConfigs}
    /\ list_orders = <<>>
    /\ list_results = <<>>
    /\ list_response = None
    /\ lpc = "start"
    /\ CoreIdle
    /\ FilterIdle
    /\ FetchIdle
    /\ AssemblerIdle
    /\ BulkIdle
    /\ ServiceIdle

\* Steps 1 and 2: get_orders_batch_by_msisdns, the early return without
\* orders, filter_and_group
FetchListOrders ==
    /\ lpc = "start"
    /\ \E orders_list \in ListFeeds(requested) :
          IF orders_list = <<>>
              THEN /\ list_response' = Some(NoOrdersResponse(requested))
                   /\ lpc' = "returned"
                   /\ UNCHANGED list_orders
              ELSE /\ list_orders' = filter_and_group(orders_list, Val(list_config).order_filter)
                   /\ lpc' = "validating"
                   /\ UNCHANGED list_response
    /\ UNCHANGED <<requested, list_results, list_config>>
    /\ UNCHANGED <<coreVars, filterVars, fetchVars, assemblerVars, bulkVars, serviceVars>>

\* Step 3, one pass of the loop: results[msisdn] = self.validate_msisdn(msisdn),
\* which returns a verdict response or {status: error}
ValidateListed ==
    /\ lpc = "validating"
    /\ Len(list_results) < Len(list_orders)
    /\ LET msisdn == list_orders[Len(list_results) + 1].key IN
       \E r \in {ResponseJson(msisdn), ErrorJson(msisdn)} :
           list_results' = DictSet(list_results, msisdn, r)
    /\ UNCHANGED <<requested, list_orders, list_response, list_config, lpc>>
    /\ UNCHANGED <<coreVars, filterVars, fetchVars, assemblerVars, bulkVars, serviceVars>>

\* Step 4 and the return; "except Exception as e: return {status: error, ...}"
FormatListResponse ==
    /\ lpc = "validating"
    /\ Len(list_results) = Len(list_orders)
    /\ \E now \in Clock :
          LET o == format_bulk_msisdn_response(requested, DictKeys(list_orders), list_results,
                                               Val(list_config).output_format, now) IN
          list_response' =
              Some(IF o.raised
                       THEN ListResponse(Some("error"), Some("AttributeError"), None, None, None)
                       ELSE o.value)
    /\ lpc' = "returned"
    /\ UNCHANGED <<requested, list_orders, list_results, list_config>>
    /\ UNCHANGED <<coreVars, filterVars, fetchVars, assemblerVars, bulkVars, serviceVars>>

NextList == FetchListOrders \/ ValidateListed \/ FormatListResponse

SpecList == InitList /\ [][NextList]_vars

\* the yesterday-batch half of C29: the csv report is the fixed header
\* followed by one row per grouped identifier, in the order of the map
BatchReportTabular ==
    (Formatted /\ Lower(BatchSummary.output_format) = CSV) =>
        /\ ~IsNone(Val(report).csv_data)
        /\ LET csv_data == Val(Val(report).csv_data) IN
           /\ Len(csv_data) = 1 + Len(grouped_orders)
           /\ csv_data[1] = BatchCsvHeader
           /\ \A k \in DOMAIN grouped_orders : csv_data[k + 1][1] = grouped_orders[k].key

\* the explicit-list half: with csv, a call that found orders returns a tabular
\* report under the fixed header
ListReportTabular ==
    (/\ lpc = "returned"
     /\ Lower(Val(list_config).output_format) = CSV
     /\ list_orders # <<>>) =>
        /\ ~IsNone(Val(list_response).csv_data)
        /\ Val(Val(list_response).csv_data)[1] = ListCsvHeader

\* C29: with output format csv the yesterday-batch report is the fixed header
\* MSISDN, Order Reason, Order Status, Validation Status, Has Multiple Orders,
\* Order Count, Success Rate, Errors followed by exactly one row per grouped
\* identifier, and the explicit-MSISDN-list report is a tabular report with the
\* fixed header MSISDN, Validation Status, Success Rate, Errors, Order Reason,
\* Asset Count
C29_TabularReports == BatchReportTabular /\ ListReportTabular

\* what validate_bulk_msisdns returns with csv once orders were found
C29_ListCsvIsError ==
    (/\ lpc = "returned"
     /\ Lower(Val(list_config).output_format) = CSV
     /\ list_orders # <<>>) =>
        Val(list_response) = ListResponse(Some("error"), Some("AttributeError"), None, None, None)

-----------------------------------------------------------------------------
(* The single-identifier pipeline: claims *)

ServiceReturned == spc = "returned"
Outcome == Val(svc_outcome)
ServiceResponse == Val(Outcome.response)
EngineRan == ServiceReturned /\ ~IsNone(Outcome.engine_input)
EngineInput == Val(Outcome.engine_input)
Succeeded == ServiceReturned /\ ~Outcome.raised /\ ServiceResponse.status = "success"

\* the reason of a fetched order (null when the order or its reason is null)
RecordReason(rec) == IF IsNone(rec.Order) THEN None ELSE Val(rec.Order).Reason__c

\* the distinct non-null reasons of the fetched history, by first occurrence
HistoryReasons ==
    LET h == Val(request).history IN
    SelectSeq([i \in DOMAIN h |-> RecordReason(h[i])],
              LAMBDA r : ~IsNone(r))

FirstOccurrencesOf(seq) ==
    SelectSeq([i \in DOMAIN seq |-> [v |-> seq[i], first |-> \A j \in 1..(i - 1) : seq[j] # seq[i]]],
              LAMBDA e : e.first)

DistinctHistoryReasons ==
    LET f == FirstOccurrencesOf(HistoryReasons) IN [i \in DOMAIN f |-> f[i].v]

\* C23: validate_msisdn hands the rule engine the distinct non-null reasons of
\* the identifier's fetched order history, in first-occurrence order; each of
\* them has an entry in the verdict's reason_based results, and a reason with
\* a configured check set is evaluated, not skipped
C23_HistoryReasonsReachEngine ==
    /\ EngineRan => EngineInput.order_reasons = DistinctHistoryReasons
    /\ Succeeded =>
          \A i \in DOMAIN DistinctHistoryReasons :
              LET reason == Val(DistinctHistoryReasons[i])
                  rb == Val(ServiceResponse.validations).reason_based IN
              /\ HasKey(rb, reason)
              /\ ~IsNone(ReasonConfig(Val(engine_cfg), reason))
                    => DictLookup(rb, reason).status # "SKIPPED"

RawDevice == Val(Val(request).lookup.value.device)
CanonicalDevice == Val(EngineInput.assets.device)

\* a canonical charge is null iff the raw one is, and equal to it otherwise
ChargeKept(raw, canonical) ==
    /\ IsNone(canonical) <=> IsNone(raw)
    /\ ~IsNone(raw) => canonical = raw

\* C24: in the canonical asset handed to the rule engine each of one_time and
\* recurring is null iff the raw value is null and equals the raw value
\* otherwise; a device whose two raw charges are both null does not pass the
\* device-charges check
C24_NullChargesStayNull ==
    /\ EngineRan =>
          /\ ChargeKept(RawDevice.OneTimeCharge__c, CanonicalDevice.charges.one_time)
          /\ ChargeKept(RawDevice.RecurringCharge__c, CanonicalDevice.charges.recurring)
    /\ (Succeeded /\ IsNone(RawDevice.OneTimeCharge__c) /\ IsNone(RawDevice.RecurringCharge__c))
          => ~DictLookup(Val(ServiceResponse.validations).basic.checks, "chk6")

LookupNotFound ==
    /\ ~Val(request).lookup.raised
    /\ ~IsNone(Val(request).lookup.value.error)

\* an exception is raised inside the call: by the asset lookup, by the engine
\* (malformed configuration), or by the response assembly (an order with a
\* null Order relationship, a warning that is not a mapping)
LookupFails == Val(request).lookup.raised
EngineFails == ~Val(engine_cfg).basic_is_mapping
AssemblyFails ==
    \/ \E i \in DOMAIN Val(request).history : IsNone(Val(request).history[i].Order)
    \/ \E i \in DOMAIN accumulator : ~accumulator[i].mapping

\* C27: validate_msisdn never raises: a lookup-not-found state and any
\* exception from a lookup, the engine or the response assembly each yield
\* {status: "error", message: ...}; on a lookup-not-found state neither the
\* order-history lookup nor the rule engine runs
C27_NeverRaises ==
    ServiceReturned =>
        /\ ~Outcome.raised
        /\ ~IsNone(Outcome.response)
        /\ ServiceResponse.status \in {"success", "error"}
        /\ ServiceResponse.status = "error" => ~IsNone(ServiceResponse.message)
        /\ LookupNotFound =>
              /\ ServiceResponse = ErrorResponse(Val(Val(request).lookup.value.error))
              /\ ~Outcome.history_fetched
              /\ IsNone(Outcome.engine_input)
        /\ (LookupFails \/ LookupNotFound \/ EngineFails \/ AssemblyFails)
              <=> ServiceResponse.status = "error"

\* the engine raised on a malformed configuration after a complete lookup
C27_Witness ==
    /\ ServiceReturned
    /\ ~LookupFails /\ ~LookupNotFound /\ EngineFails
    /\ Outcome.history_fetched
    /\ ServiceResponse.status = "error"

\* the device is missing while the history holds orders
C27_WitnessNotFound ==
    /\ ServiceReturned
    /\ Val(request).lookup.value = device_missing_result(Some(RawLine))
    /\ ~LookupFails
    /\ Val(request).history # <<>>
    /\ ServiceResponse = ErrorResponse("No device found (mandatory)")
    /\ ~Outcome.history_fetched

\* C28: the warnings attached to an identifier's verdict contain no warning
\* that was recorded before that identifier's validation began (the caller
\* resets the accumulator at the start of each validation), and the
\* validation itself leaves the accumulator unchanged
C28_NoWarningLeak ==
    [][(spc = "called" /\ spc' = "returned") =>
          /\ accumulator' = accumulator
          /\ LET r == Val(Val(svc_outcome').response) IN
             \A i \in DOMAIN r.warnings : ~InList(r.warnings[i], accumulator)]_vars

\* the engine's part of C28 alone: a validation leaves the accumulator as it was
C28_EngineLeavesAccumulator ==
    [][(spc = "called" /\ spc' = "returned") => accumulator' = accumulator]_vars

====
